---------------------------- MODULE Spec2Model ----------------------------
(***************************************************************************)
(* A model of the anpa parser-combinator engine (habbbe/anpa-rs).          *)
(*                                                                         *)
(* A parser is a copyable closure  FnOnce(&mut AnpaState) -> Option<O>.    *)
(* Here a parser value is a record (its captured configuration, tagged by  *)
(* the function that built it) and  Run(p, s)  applies it to a parse state *)
(* s = [input, user_state], giving  [res, s]: the Option it returns and    *)
(* the state it leaves behind.  Inputs are byte slices (&[u8]); a cursor   *)
(* is the sequence of the items still ahead.                               *)
(***************************************************************************)
EXTENDS Integers, Sequences, FiniteSets, TLC

VARIABLES
    env,      \* the build: [chunk_size, overflow_checks]
    parser,   \* the parser value handed to parse_state
    start,    \* the AnpaState the call started from
    s,        \* the AnpaState: [input, user_state]
    result,   \* the Option<O> of the call (None until it has returned)
    pc,       \* control point of the running call
    loc       \* locals of the running repetition loop

vars == <<env, parser, start, s, result, pc, loc>>

-----------------------------------------------------------------------------
(* Bounds of the model.                                                    *)

MaxInputLen == 3

-----------------------------------------------------------------------------
(* Option<O>, the unit value and parse outcomes.                           *)

None == [some |-> FALSE]

Some(v) == [some |-> TRUE, v |-> v]

Unit == "()"

Out(res, st) == [res |-> res, s |-> st]

AnpaState(input, user_state) == [input |-> input, user_state |-> user_state]

(* Items of the inputs: ASCII codes.                                       *)
CH_a == 97
CH_b == 98
CH_minus == 45
CH_0 == 48
CH_space == 32
CH_comma == 44
CH_plus == 43
CH_star == 42
CH_slash == 47
CH_lparen == 40
CH_rparen == 41
CH_dot == 46
CH_quote == 34
CH_backslash == 92

-----------------------------------------------------------------------------
(* SliceLike for &[A].                                                     *)

slice_len(i) == Len(i)

slice_from(i, from) == SubSeq(i, from + 1, Len(i))

slice_to(i, to) == SubSeq(i, 1, to)

slice_split_at(i, at) == <<slice_to(i, at), slice_from(i, at)>>

slice_is_empty(i) == Len(i) = 0

slice_first(i) == IF Len(i) = 0 THEN None ELSE Some(i[1])

\* iter().position(pred): zero-based index of the first item in the set pred
RECURSIVE position_from(_, _, _)
position_from(i, pred, k) ==
    IF k > Len(i) THEN None
    ELSE IF i[k] \in pred THEN Some(k - 1)
    ELSE position_from(i, pred, k + 1)

slice_find_pred(i, pred) == position_from(i, pred, 1)

IsPrefixOf(a, b) == Len(a) <= Len(b) /\ SubSeq(b, 1, Len(a)) = a

-----------------------------------------------------------------------------
(* Parser values.  A closure argument (a predicate, a transformation) is   *)
(* carried as data: a predicate as the set of items it accepts, the        *)
(* lift_to_state function as a tag.                                        *)

Success == [op |-> "success"]
Failure == [op |-> "failure"]
Rest == [op |-> "rest"]
Empty == [op |-> "empty"]
ItemIf(pred) == [op |-> "item_if", pred |-> pred]
ItemWhile(pred) == [op |-> "item_while", pred |-> pred]
Take(prefix) == [op |-> "take", prefix |-> prefix]
Skip(prefix) == [op |-> "skip", prefix |-> prefix]
Right(p1, p2) == [op |-> "right", p1 |-> p1, p2 |-> p2]
Left(p1, p2) == [op |-> "left", p1 |-> p1, p2 |-> p2]
Or(p1, p2) == [op |-> "or", p1 |-> p1, p2 |-> p2]
OrNoPartial(p1, p2) == [op |-> "or_no_partial", p1 |-> p1, p2 |-> p2]
OrDiff(p1, p2) == [op |-> "or_diff", p1 |-> p1, p2 |-> p2]
OrDiffNoPartial(p1, p2) == [op |-> "or_diff_no_partial", p1 |-> p1, p2 |-> p2]
GreedyOr(p1, p2) == [op |-> "greedy_or", p1 |-> p1, p2 |-> p2]
Attempt(p) == [op |-> "attempt", p |-> p]
Peek(p) == [op |-> "peek", p |-> p]
Succeed(p) == [op |-> "succeed", p |-> p]
LiftToState(f, p) == [op |-> "lift_to_state", f |-> f, p |-> p]

FindByte(finder, consume_result) ==
    [op |-> "find_byte", finder |-> finder, consume_result |-> consume_result]
UntilByte(finder, include_result, consume_result) ==
    [op |-> "until_byte", finder |-> finder, include_result |-> include_result,
     consume_result |-> consume_result]

Pure(x) == [op |-> "pure", x |-> x]
SkipAsciiWhitespace == [op |-> "skip_ascii_whitespace"]

\* the many family: name is "many" or "many_to_vec"; separator is
\* no_separator or separator(p, allow_trailing)
ManyParser(name, p, allow_empty, sep) ==
    [op |-> name, p |-> p, allow_empty |-> allow_empty, separator |-> sep]
Chain(p, op_p) == [op |-> "chain", p |-> p, op_p |-> op_p]

\* integer::<O>(), integer_checked::<O>(), integer_signed::<O>() and
\* integer_signed_checked::<O>(): name is the function's name
IntegerParser(name, O) == [op |-> name, O |-> O]

\* integer_internal::<CHECKED, NEG, DEC_DIVISOR, O, ..>()
IntegerInternal(CHECKED, NEG, DEC_DIVISOR, O) ==
    [op |-> "integer_internal", CHECKED |-> CHECKED, NEG |-> NEG,
     DEC_DIVISOR |-> DEC_DIVISOR, O |-> O]

\* greedy_or!(e1, e2, e3) = variadic!(greedy_or, e1, e2, e3) = f(e1, f(e2, e3))
GreedyOr3(e1, e2, e3) == GreedyOr(e1, GreedyOr(e2, e3))

\* a closure argument that computes a value is carried as a record: fn names
\* the closure, the other fields are what it captured
Map(f, p) == [op |-> "map", f |-> f, p |-> p]
Bind(p, f) == [op |-> "bind", p |-> p, f |-> f]

\* filter(p, f): the predicate f is a closure record; [fn |-> "eq", x |-> x]
\* is |r| *r == x
Filter(p, f) == [op |-> "filter", p |-> p, f |-> f]

\* take(item): the prefix is one item and so is the result
TakeItem(item) == [op |-> "take_item", item |-> item]

CountConsumed(p) == [op |-> "count_consumed", p |-> p]
AndParsed(p) == [op |-> "and_parsed", p |-> p]
GetParsed(p) == [op |-> "get_parsed", p |-> p]
Times(times, p) == [op |-> "times", times |-> times, p |-> p]

Middle(p1, p2, p3) == Right(p1, Left(p2, p3))

\* defer_parser!(f()): the parser f() is built when the closure is called
DeferParser(f) == [op |-> "defer_parser", f |-> f]

\* not_empty(p): filter(p, |r| !r.slice_is_empty())
\* choose!(p; arm => new_p, ..): arms maps each pattern (an item) to its parser
Choose(p, arms) == [op |-> "choose", p |-> p, arms |-> arms]

NotEmpty(p) == Filter(p, [fn |-> "not_empty"])
MapIf(p, f) == [op |-> "map_if", p |-> p, f |-> f]
\* tuplify!(p..), ps being the sequence of its parsers
Tuplify(ps) == [op |-> "tuplify", ps |-> ps]

\* parsers.rs, internal_integer!($type, $id, $checked, $neg): the parser the
\* generated function $id returns
InternalInteger(id, O, checked, neg) ==
    [op |-> "internal_integer", id |-> id, O |-> O, checked |-> checked, neg |-> neg]

\* parsers.rs, internal_signed_integer!($type, $id, $checked):
\*   succeed(I::minus_parser()).bind(move |x| ..)
InternalSignedInteger(id, O, checked) ==
    Bind(Succeed(TakeItem(CH_minus)),
         [fn |-> "internal_signed_integer", id |-> id, O |-> O, checked |-> checked])

RECURSIVE Run(_, _)

-----------------------------------------------------------------------------
(* parsers.rs and the take!/skip! macros.                                  *)

item_if(pred, st) ==
    LET first == slice_first(st.input)
    IN  IF ~first.some THEN Out(None, st)
        ELSE IF first.v \in pred
             THEN Out(Some(first.v), [st EXCEPT !.input = slice_from(st.input, 1)])
             ELSE Out(None, st)

\* item_while with the two halves of slice_split_at exchanged
item_while_swapped(pred, st) ==
    LET f == slice_find_pred(st.input, {c \in 0..255 : c \notin pred})
    IN  IF f.some /\ f.v = 0 THEN Out(None, st)
        ELSE LET idx == IF f.some THEN f.v ELSE slice_len(st.input)
                 sp == slice_split_at(st.input, idx)
             IN  Out(Some(sp[2]), [st EXCEPT !.input = sp[1]])

item_while(pred, st) ==
    LET f == slice_find_pred(st.input, {c \in 0..255 : c \notin pred})
    IN  IF f.some /\ f.v = 0 THEN Out(None, st)
        ELSE LET idx == IF f.some THEN f.v ELSE slice_len(st.input)
                 sp == slice_split_at(st.input, idx)
             IN  Out(Some(sp[1]), [st EXCEPT !.input = sp[2]])

rest(st) ==
    LET sp == slice_split_at(st.input, slice_len(st.input))
    IN  Out(Some(sp[1]), [st EXCEPT !.input = sp[2]])

empty(st) ==
    IF slice_is_empty(st.input) THEN Out(Some(st.input), st) ELSE Out(None, st)

\* Prefix for a literal sub-sequence: split_at_checked(len).filter(prefix == self)
remove_prefix(prefix, haystack) ==
    IF Len(prefix) <= Len(haystack) /\ slice_to(haystack, Len(prefix)) = prefix
    THEN Some(slice_split_at(haystack, Len(prefix)))
    ELSE None

take(prefix, st) ==
    LET r == remove_prefix(prefix, st.input)
    IN  IF r.some THEN Out(Some(r.v[1]), [st EXCEPT !.input = r.v[2]])
        ELSE Out(None, st)

\* Prefix for one item: split_first().filter(|x| x.0 == self)
take_item(item, st) ==
    IF slice_first(st.input) = Some(item)
    THEN Out(Some(item), [st EXCEPT !.input = slice_from(st.input, 1)])
    ELSE Out(None, st)

skip(prefix, st) ==
    LET r == remove_prefix(prefix, st.input)
    IN  IF r.some THEN Out(Some(Unit), [st EXCEPT !.input = r.v[2]])
        ELSE Out(None, st)

-----------------------------------------------------------------------------
(* combinators.rs                                                          *)

\* i64 `/`: the quotient rounded towards zero (b is never 0 in the inputs here)
rust_div(a, b) ==
    LET abs(x) == IF x < 0 THEN 0 - x ELSE x
    IN  IF (a < 0) = (b < 0) THEN abs(a) \div abs(b) ELSE 0 - (abs(a) \div abs(b))

\* the closure ops of the chain example: the function it returns for the
\* operator character c, by name
ops(c) ==
    CASE c = CH_plus -> "add"
      [] c = CH_minus -> "sub"
      [] c = CH_star -> "mul"
      [] c = CH_slash -> "div"

\* the functions an operator parser of chain returns: res = op_f(res, res2)
apply_op(op_f, a, b) ==
    CASE op_f = "add" -> a + b
      [] op_f = "sub" -> a - b
      [] op_f = "mul" -> a * b
      [] op_f = "div" -> rust_div(a, b)
      [] op_f = "keep_left" -> a

\* succeed putting the cursor back when p fails
succeed_backtracking(p, st) ==
    LET r == Run(p, st) IN Out(Some(r.res), IF r.res.some THEN r.s ELSE AnpaState(st.input, r.s.user_state))

succeed(p, st) ==
    LET r == Run(p, st) IN Out(Some(r.res), r.s)

\* p(s).filter(f), with the closures f the parsers here are built with.
\* numeric_identifier's is |d| d.len() == 1 || !d.starts_with('0')
filter(p, f, st) ==
    LET accepts(v) ==
            CASE f.fn = "eq" -> v = f.x
              [] f.fn = "not_empty" -> ~slice_is_empty(v)
              [] f.fn = "numeric_identifier" ->
                   Len(v) = 1 \/ ~(v # << >> /\ v[1] = CH_0)
        keep(r) == IF r.res.some /\ ~accepts(r.res.v) THEN Out(None, r.s) ELSE r
    IN  keep(Run(p, st))

\* peek putting the cursor back only when p failed
peek_restore_on_failure(p, st) ==
    LET pos == st.input
        r == Run(p, st)
    IN  IF ~r.res.some THEN Out(r.res, [r.s EXCEPT !.input = pos]) ELSE r

peek(p, st) ==
    LET pos == st.input
        r == Run(p, st)
    IN  Out(r.res, [r.s EXCEPT !.input = pos])

\* attempt mutated to roll the whole state back, accumulator included
attempt_transactional(p, st) ==
    LET r == Run(p, st)
    IN  IF ~r.res.some THEN Out(r.res, st) ELSE r

\* attempt without `s.input = pos`
attempt_no_restore(p, st) == Run(p, st)

\* attempt putting the cursor back after a success too
attempt_always_restore(p, st) ==
    LET pos == st.input
        r == Run(p, st)
    IN  Out(r.res, [r.s EXCEPT !.input = pos])

attempt(p, st) ==
    LET pos == st.input
        r == Run(p, st)
    IN  IF ~r.res.some THEN Out(r.res, [r.s EXCEPT !.input = pos])
        ELSE r

count_consumed(p, st) ==
    LET old == slice_len(st.input)
        ret(r) == IF r.res.some
                  THEN Out(Some(<<old - slice_len(r.s.input), r.res.v>>), r.s)
                  ELSE r
    IN  ret(Run(p, st))

and_parsed(p, st) ==
    LET old_input == st.input
        ret(r) ==
            IF r.res.some
            THEN Out(Some(<<slice_to(old_input,
                                     slice_len(old_input) - slice_len(r.s.input)),
                            r.res.v>>), r.s)
            ELSE r
    IN  ret(Run(p, st))

\* get_parsed cutting old_input at the length of what is left
get_parsed_to_rest_len(p, st) ==
    LET old_input == st.input
        ret(r) ==
            IF r.res.some
            THEN Out(Some(slice_to(old_input, slice_len(r.s.input))), r.s)
            ELSE r
    IN  ret(Run(p, st))

get_parsed(p, st) ==
    LET old_input == st.input
        ret(r) ==
            IF r.res.some
            THEN Out(Some(slice_to(old_input,
                                   slice_len(old_input) - slice_len(r.s.input))), r.s)
            ELSE r
    IN  ret(Run(p, st))

\* the loop of times going on after a failed p
RECURSIVE times_loop_ignore_failure(_, _, _)
times_loop_ignore_failure(k, p, st) ==
    LET next(r) == times_loop_ignore_failure(k - 1, p, r.s)
    IN  IF k = 0 THEN Out(Some(Unit), st) ELSE next(Run(p, st))

\* for _ in 0..times { p(s)?; } with k rounds to go
RECURSIVE times_loop(_, _, _)
times_loop(k, p, st) ==
    LET next(r) == IF r.res.some THEN times_loop(k - 1, p, r.s) ELSE Out(None, r.s)
    IN  IF k = 0 THEN Out(Some(Unit), st) ELSE next(Run(p, st))

times(n, p, st) ==
    LET old_input == st.input
        ret(r) ==
            IF r.res.some
            THEN Out(Some(slice_to(old_input,
                                   slice_len(old_input) - slice_len(r.s.input))), r.s)
            ELSE r
    IN  ret(times_loop(n, p, st))

right(p1, p2, st) ==
    LET second(r1) == IF r1.res.some THEN Run(p2, r1.s) ELSE Out(None, r1.s)
    IN  second(Run(p1, st))

left(p1, p2, st) ==
    LET both(r1, r2) == IF r2.res.some THEN Out(r1.res, r2.s) ELSE Out(None, r2.s)
        second(r1) == IF r1.res.some THEN both(r1, Run(p2, r1.s)) ELSE Out(None, r1.s)
    IN  second(Run(p1, st))

\* the closure of float_internal's map, with n and is_neg captured:
\*   cast_isize(n) + if is_neg {MINUS_ONE} else {ONE} * cast_usize(dec) / cast_usize(div)
\* with the sign taken from n
float_value_sign_of_n(n, is_neg, dec, div) ==
    [num |-> n * div + (IF n < 0 THEN -1 ELSE 1) * dec, den |-> div]

\* the closure of float_internal's map, with n and is_neg captured:
\*   cast_isize(n) + if is_neg {MINUS_ONE} else {ONE} * cast_usize(dec) / cast_usize(div)
\* A float is held as the exact quotient num / den of the value computed;
\* the rounding of f32 and f64 is left out.
float_value(n, is_neg, dec, div) ==
    [num |-> n * div + (IF is_neg THEN -1 ELSE 1) * dec, den |-> div]

\* map!(f, p) with the closures f the parsers here are built with
map(f, p, st) ==
    LET apply(r) ==
            IF ~r.res.some THEN r
            ELSE Out(Some(CASE f.fn = "ops" -> ops(r.res.v)
                            [] f.fn = "AnpaVersion" ->
                                 \* |(major, minor, patch), pre, build| AnpaVersion::new(..)
                                 [major |-> r.res.v[1][1], minor |-> r.res.v[1][2],
                                  patch |-> r.res.v[1][3],
                                  pre_release |-> IF r.res.v[2].some THEN r.res.v[2].v
                                                  ELSE << >>,
                                  build |-> IF r.res.v[3].some THEN r.res.v[3].v
                                            ELSE << >>]
                            [] f.fn = "float_value" ->
                                 float_value(f.n, f.is_neg, r.res.v[1], r.res.v[2])),
                     r.s)
    IN  apply(Run(p, st))

\* internal_or mutated to leave the cursor where p1 left it before trying p2
internal_or_no_restore(allow_partial, p1, p2, st) ==
    LET pos == st.input
        r1 == Run(p1, st)
    IN  IF r1.res.some THEN r1
        ELSE IF ~allow_partial /\ slice_len(r1.s.input) # slice_len(pos)
             THEN Out(None, r1.s)
             ELSE Run(p2, r1.s)

\* internal_or mutated to ignore allow_partial: p2 is tried after any failure
internal_or_no_cut(allow_partial, p1, p2, st) ==
    LET pos == st.input
        r1 == Run(p1, st)
    IN  IF r1.res.some THEN r1
        ELSE Run(p2, [r1.s EXCEPT !.input = pos])

\* macro internal_or!: or is internal_or(TRUE, ..), or_no_partial internal_or(FALSE, ..)
internal_or(allow_partial, p1, p2, st) ==
    LET pos == st.input
        second(r1) ==
            IF r1.res.some THEN r1
            ELSE IF ~allow_partial /\ slice_len(r1.s.input) # slice_len(pos)
                 THEN Out(None, r1.s)
                 ELSE Run(p2, [r1.s EXCEPT !.input = pos])
    IN  second(Run(p1, st))

\* macro internal_or_diff!: the result type collapses to ()
internal_or_diff(allow_partial, p1, p2, st) ==
    LET pos == st.input
        r1 == Run(p1, st)
    IN  IF r1.res.some THEN Out(Some(Unit), r1.s)
        ELSE IF ~allow_partial /\ slice_len(r1.s.input) # slice_len(pos)
             THEN Out(None, r1.s)
             ELSE LET r2 == Run(p2, [r1.s EXCEPT !.input = pos])
                  IN  Out(IF r2.res.some THEN Some(Unit) ELSE None, r2.s)

\* the closure f of lift_to_state: |v: &mut Vec<_>, x| v.push(x)
apply_state_fn(f, user_state, x) ==
    IF f = "push" THEN [user_state |-> Append(user_state, x), ret |-> Unit]
    ELSE [user_state |-> user_state, ret |-> x]

lift_to_state(f, p, st) ==
    LET r == Run(p, st)
    IN  IF r.res.some
        THEN LET a == apply_state_fn(f, r.s.user_state, r.res.v)
             IN  Out(Some(a.ret), [r.s EXCEPT !.user_state = a.user_state])
        ELSE r

\* greedy_or returning p1's outcome at once when p1 succeeds
greedy_or_short_circuit(p1, p2, st) ==
    LET pos == st.input
        r1 == Run(p1, st)
        r2 == Run(p2, [r1.s EXCEPT !.input = pos])
        p1_consumed == slice_len(pos) - slice_len(r1.s.input)
        p2_consumed == slice_len(pos) - slice_len(r2.s.input)
    IN  IF r1.res.some THEN r1
        ELSE IF ~r2.res.some /\ p1_consumed >= p2_consumed
             THEN Out(r1.res, [r2.s EXCEPT !.input = r1.s.input])
             ELSE r2

\* greedy_or mutated to break ties in favour of p2
greedy_or_tie_second(p1, p2, st) ==
    LET pos == st.input
        r1 == Run(p1, st)
        p1_consumed == slice_len(pos) - slice_len(r1.s.input)
        p1_pos == r1.s.input
        r2 == Run(p2, [r1.s EXCEPT !.input = pos])
        p2_consumed == slice_len(pos) - slice_len(r2.s.input)
        p1_is_some == r1.res.some
        choose_p1 == IF p1_is_some = r2.res.some
                     THEN p1_consumed > p2_consumed
                     ELSE p1_is_some
    IN  IF choose_p1 THEN Out(r1.res, [r2.s EXCEPT !.input = p1_pos])
        ELSE r2

greedy_or(p1, p2, st) ==
    LET pos == st.input
        r1 == Run(p1, st)
        p1_consumed == slice_len(pos) - slice_len(r1.s.input)
        p1_pos == r1.s.input
        r2 == Run(p2, [r1.s EXCEPT !.input = pos])
        p2_consumed == slice_len(pos) - slice_len(r2.s.input)
        p1_is_some == r1.res.some
        choose_p1 == IF p1_is_some = r2.res.some
                     THEN p1_consumed >= p2_consumed
                     ELSE p1_is_some
    IN  IF choose_p1 THEN Out(r1.res, [r2.s EXCEPT !.input = p1_pos])
        ELSE r2

\* the loop of chain leaving after its first operator application
chain_loop_once(p, op_p, res, st) ==
    LET operand(op_f, r2) ==
            IF r2.res.some THEN Out(Some(apply_op(op_f, res, r2.res.v)), r2.s)
            ELSE Out(Some(res), r2.s)
        operator(r1) ==
            IF r1.res.some THEN operand(r1.res.v, Run(p, r1.s))
            ELSE Out(Some(res), r1.s)
    IN  operator(Run(op_p, st))

\* the loop of chain, res being the value folded so far
RECURSIVE chain_loop(_, _, _, _)
chain_loop(p, op_p, res, st) ==
    LET operand(op_f, r2) ==
            IF r2.res.some
            THEN chain_loop(p, op_p, apply_op(op_f, res, r2.res.v), r2.s)
            ELSE Out(Some(res), r2.s)
        operator(r1) ==
            IF r1.res.some THEN operand(r1.res.v, Run(p, r1.s))
            ELSE Out(Some(res), r1.s)
    IN  operator(Run(op_p, st))

chain(p, op_p, st) ==
    LET loop(r) == IF r.res.some THEN chain_loop(p, op_p, r.res.v, r.s)
                   ELSE Out(None, r.s)
    IN  loop(Run(p, st))

-----------------------------------------------------------------------------
(* findbyte.rs.  Work is usize: a word of env.chunk_size byte lanes, held  *)
(* here as the sequence of its bytes, least significant first (the order   *)
(* from_le_bytes gives the bytes of a chunk).                              *)

\* bit i of the byte x
Bit(x, i) == (x \div (2 ^ i)) % 2

RECURSIVE bitwise8(_, _, _, _)
bitwise8(opr, a, b, i) ==
    LET bit(x, y) == CASE opr = "and" -> x * y
                       [] opr = "or" -> IF x + y > 0 THEN 1 ELSE 0
                       [] opr = "xor" -> (x + y) % 2
    IN  IF i = 8 THEN 0
        ELSE bit(Bit(a, i), Bit(b, i)) * (2 ^ i) + bitwise8(opr, a, b, i + 1)

\* the word operators & ("and"), | ("or") and ^ ("xor"), and !
word_op(opr, v, w) == [k \in DOMAIN v |-> bitwise8(opr, v[k], w[k], 0)]
word_not(v) == [k \in DOMAIN v |-> 255 - v[k]]

\* the borrow out of lane k of v - w
RECURSIVE borrow_out(_, _, _)
borrow_out(v, w, k) ==
    IF k = 0 THEN 0
    ELSE IF v[k] - w[k] - borrow_out(v, w, k - 1) < 0 THEN 1 ELSE 0

\* usize::wrapping_sub: the borrow runs from each lane into the next higher one
wrapping_sub(v, w) ==
    [k \in DOMAIN v |-> (v[k] - w[k] - borrow_out(v, w, k - 1)) % 256]

\* LOW_BITS = Work::MAX / 255 = 0x0101..01, HIGH_BITS = LOW_BITS << 7
LOW_BITS(n) == [k \in 1..n |-> 1]
HIGH_BITS(n) == [k \in 1..n |-> 128]

\* b as Work * LOW_BITS: b in every lane (b < 256, no carry between lanes)
broadcast(b, n) == [k \in 1..n |-> b]

\* finders: eq(b), ne(b), lt(b), gt(b) and a | b
EqByte(b) == [k |-> "eq", b |-> b]
NeByte(b) == [k |-> "ne", b |-> b]
LtByte(b) == [k |-> "lt", b |-> b]
GtByte(b) == [k |-> "gt", b |-> b]
OrByte(a, b) == [k |-> "or", a |-> a, b |-> b]

\* BitOr for OrByte<A, B> | C: re-nests to the right
bitor(f, rhs) ==
    IF f.k = "or" THEN OrByte(f.a, OrByte(f.b, rhs)) ELSE OrByte(f, rhs)

EqByte_intermediate(b, haystack) ==
    LET flags(to_find) ==
            word_op("and", wrapping_sub(to_find, LOW_BITS(Len(haystack))), word_not(to_find))
    IN  flags(word_op("xor", haystack, broadcast(b, Len(haystack))))

NeByte_intermediate(b, haystack) ==
    word_op("xor", EqByte_intermediate(b, haystack), HIGH_BITS(Len(haystack)))

LtByte_intermediate(b, haystack) ==
    word_op("and", wrapping_sub(haystack, broadcast(b, Len(haystack))), word_not(haystack))

GtByte_intermediate(b, haystack) ==
    LET flags(mask) == word_op("and", wrapping_sub(mask, haystack), word_not(mask))
    IN  flags(broadcast(b, Len(haystack)))

RECURSIVE intermediate(_, _)
intermediate(f, haystack) ==
    CASE f.k = "eq" -> EqByte_intermediate(f.b, haystack)
      [] f.k = "ne" -> NeByte_intermediate(f.b, haystack)
      [] f.k = "lt" -> LtByte_intermediate(f.b, haystack)
      [] f.k = "gt" -> GtByte_intermediate(f.b, haystack)
      [] f.k = "or" -> word_op("or", intermediate(f.a, haystack), intermediate(f.b, haystack))

RECURSIVE slow_cmp(_, _)
slow_cmp(f, other) ==
    CASE f.k = "eq" -> other = f.b
      [] f.k = "ne" -> other # f.b
      [] f.k = "lt" -> other < f.b
      [] f.k = "gt" -> other > f.b
      [] f.k = "or" -> slow_cmp(f.a, other) \/ slow_cmp(f.b, other)

\* present.trailing_zeros() / u8::BITS: the lowest lane that is not zero
RECURSIVE first_lane(_, _)
first_lane(present, k) ==
    IF present[k] # 0 THEN k - 1 ELSE first_lane(present, k + 1)

\* the loop over chunks_exact(CHUNK_SIZE), from chunk number c (zero-based):
\* the position of the first flagged lane, or None once the chunks are used up
RECURSIVE chunk_loop(_, _, _, _)
chunk_loop(bytes, finder, chunk_size, c) ==
    LET flagged(present) ==
            IF present # broadcast(0, chunk_size)
            THEN Some(c * chunk_size + first_lane(present, 1))
            ELSE chunk_loop(bytes, finder, chunk_size, c + 1)
    IN  IF (c + 1) * chunk_size > Len(bytes) THEN None
        ELSE flagged(word_op("and", 
                 intermediate(finder,
                              SubSeq(bytes, c * chunk_size + 1, (c + 1) * chunk_size)),
                 HIGH_BITS(chunk_size)))

get_byte_pos(input, finder, chunk_size) ==
    LET bytes == input
        n_chunks == Len(bytes) \div chunk_size
        remainder == SubSeq(bytes, n_chunks * chunk_size + 1, Len(bytes))
        \* the remainder, byte by byte
        slow(tail) ==
            IF tail.some
            THEN Some(<<bytes[n_chunks * chunk_size + tail.v + 1],
                        n_chunks * chunk_size + tail.v>>)
            ELSE None
        found(hit) ==
            IF hit.some THEN Some(<<bytes[hit.v + 1], hit.v>>)
            ELSE slow(slice_find_pred(remainder, {x \in 0..255 : slow_cmp(finder, x)}))
    IN  found(chunk_loop(bytes, finder, chunk_size, 0))

bool_into(b) == IF b THEN 1 ELSE 0

find_byte(finder, consume_result, st) ==
    LET ret(r) ==
            IF ~r.some THEN Out(None, st)
            ELSE Out(Some(r.v[1]),
                     [st EXCEPT !.input =
                          slice_from(st.input, r.v[2] + bool_into(consume_result))])
    IN  ret(get_byte_pos(st.input, finder, env.chunk_size))

\* until_byte leaving the cursor at the match whatever consume_result is
until_byte_no_consume(finder, include_result, consume_result, st) ==
    LET ret(r) ==
            IF ~r.some THEN Out(None, st)
            ELSE Out(Some(slice_to(st.input, r.v[2] + bool_into(include_result))),
                     [st EXCEPT !.input = slice_from(st.input, r.v[2])])
    IN  ret(get_byte_pos(st.input, finder, env.chunk_size))

until_byte(finder, include_result, consume_result, st) ==
    LET ret(r) ==
            IF ~r.some THEN Out(None, st)
            ELSE Out(Some(slice_to(st.input, r.v[2] + bool_into(include_result))),
                     [st EXCEPT !.input =
                          slice_from(st.input, r.v[2] + bool_into(consume_result))])
    IN  ret(get_byte_pos(st.input, finder, env.chunk_size))

-----------------------------------------------------------------------------
(* number.rs.  An integer type O is its MIN and MAX.  Arithmetic on O that *)
(* leaves the range panics when the build has overflow checks and wraps    *)
(* when it has not: env.overflow_checks.                                   *)

U8 == [MIN |-> 0, MAX |-> 255]
I8 == [MIN |-> -128, MAX |-> 127]
U16 == [MIN |-> 0, MAX |-> 65535]
I16 == [MIN |-> -32768, MAX |-> 32767]

\* a call that panicked: neither Some nor None comes back
Panic == [some |-> FALSE, panic |-> TRUE]

\* char::to_digit(10)
is_digit(c) == c \in CH_0..(CH_0 + 9)
to_digit(c) == c - CH_0

overflows(O, x) == x < O.MIN \/ x > O.MAX
wrap(O, x) == ((x - O.MIN) % (O.MAX - O.MIN + 1)) + O.MIN

\* the consume closure without the bound on the addition
consume_no_add_check(CHECKED, DEC_DIVISOR, O, a, digit, is_negative) ==
    LET panic == [a EXCEPT !.ret = "panic"]
        add(acc1) ==
            LET store(sum) ==
                    IF overflows(O, sum) /\ env.overflow_checks THEN panic
                    ELSE [acc |-> wrap(O, sum), idx |-> a.idx + 1,
                          dec_divisor |-> IF DEC_DIVISOR THEN a.dec_divisor * 10
                                                         ELSE a.dec_divisor,
                          ret |-> "ok"]
            IN  store(IF is_negative THEN acc1 - digit ELSE acc1 + digit)
        mul(prod) ==
            IF overflows(O, prod) /\ env.overflow_checks THEN panic
            ELSE add(wrap(O, prod))
    IN  IF CHECKED /\ a.acc > O.MAX \div 10 THEN [a EXCEPT !.ret = "none"]
        ELSE mul(a.acc * 10)

\* the consume closure: a holds the captured acc, idx and dec_divisor, and in
\* ret what the closure returned ("ok" for Some(()), "none" for None)
consume(CHECKED, DEC_DIVISOR, O, a, digit, is_negative) ==
    LET panic == [a EXCEPT !.ret = "panic"]
        \* if is_negative { .. acc = acc - digit } else { .. acc = acc + digit }
        add(acc1) ==
            LET store(sum) ==
                    IF overflows(O, sum) /\ env.overflow_checks THEN panic
                    ELSE [acc |-> wrap(O, sum), idx |-> a.idx + 1,
                          dec_divisor |-> IF DEC_DIVISOR THEN a.dec_divisor * 10
                                                         ELSE a.dec_divisor,
                          ret |-> "ok"]
            IN  IF CHECKED /\ (IF is_negative THEN acc1 < O.MIN + digit
                                              ELSE acc1 > O.MAX - digit)
                THEN [a EXCEPT !.acc = acc1, !.ret = "none"]
                ELSE store(IF is_negative THEN acc1 - digit ELSE acc1 + digit)
        \* acc = acc * ten
        mul(prod) ==
            IF overflows(O, prod) /\ env.overflow_checks THEN panic
            ELSE add(wrap(O, prod))
    IN  IF CHECKED /\ a.acc > O.MAX \div 10 THEN [a EXCEPT !.ret = "none"]
        ELSE mul(a.acc * 10)

\* for digit in iter.map_while(to_digit) { consume(digit, is_negative)?; }
\* from the k-th item of the input
RECURSIVE digit_loop(_, _, _, _, _, _, _)
digit_loop(CHECKED, DEC_DIVISOR, O, input, k, a, is_negative) ==
    LET next(a2) ==
            IF a2.ret # "ok" THEN a2
            ELSE digit_loop(CHECKED, DEC_DIVISOR, O, input, k + 1, a2, is_negative)
    IN  IF k > Len(input) \/ ~is_digit(input[k]) THEN a
        ELSE next(consume(CHECKED, DEC_DIVISOR, O, a, to_digit(input[k]), is_negative))

\* integer_internal advancing by the digits only
integer_internal_unsigned_advance(CHECKED, NEG, DEC_DIVISOR, O, st) ==
    LET input == st.input
        a0 == [acc |-> 0, idx |-> 0, dec_divisor |-> 1, ret |-> "ok"]
        is_negative == NEG /\ input[1] = CH_minus
        \* after the loop: None when no digit was read, else the cursor moves
        finish(a) ==
            IF a.ret = "panic" THEN Out(Panic, st)
            ELSE IF a.ret = "none" \/ a.idx = 0 THEN Out(None, st)
            ELSE Out(Some(<<a.acc, a.dec_divisor, is_negative>>),
                     [st EXCEPT !.input =
                          slice_from(input, a.idx)])
        digits(a1) ==
            IF a1.ret = "panic" THEN finish(a1)
            ELSE finish(digit_loop(CHECKED, DEC_DIVISOR, O, input,
                                   IF NEG THEN 2 ELSE 1, a1, is_negative))
        \* the first digit's consume: its Option is dropped
        drop(first) == digits([first EXCEPT !.ret = IF @ = "none" THEN "ok" ELSE @])
    IN  IF NEG /\ Len(input) = 0 THEN Out(None, st)
        ELSE IF NEG /\ input[1] # CH_minus /\ ~is_digit(input[1]) THEN Out(None, st)
        ELSE IF NEG /\ ~is_negative
             THEN drop(consume(CHECKED, DEC_DIVISOR, O, a0, to_digit(input[1]), FALSE))
             ELSE digits(a0)

integer_internal(CHECKED, NEG, DEC_DIVISOR, O, st) ==
    LET input == st.input
        a0 == [acc |-> 0, idx |-> 0, dec_divisor |-> 1, ret |-> "ok"]
        is_negative == NEG /\ input[1] = CH_minus
        \* after the loop: None when no digit was read, else the cursor moves
        finish(a) ==
            IF a.ret = "panic" THEN Out(Panic, st)
            ELSE IF a.ret = "none" \/ a.idx = 0 THEN Out(None, st)
            ELSE Out(Some(<<a.acc, a.dec_divisor, is_negative>>),
                     [st EXCEPT !.input =
                          slice_from(input, a.idx + bool_into(is_negative))])
        digits(a1) ==
            IF a1.ret = "panic" THEN finish(a1)
            ELSE finish(digit_loop(CHECKED, DEC_DIVISOR, O, input,
                                   IF NEG THEN 2 ELSE 1, a1, is_negative))
        \* the first digit's consume: its Option is dropped
        drop(first) == digits([first EXCEPT !.ret = IF @ = "none" THEN "ok" ELSE @])
    IN  IF NEG /\ Len(input) = 0 THEN Out(None, st)
        ELSE IF NEG /\ input[1] # CH_minus /\ ~is_digit(input[1]) THEN Out(None, st)
        ELSE IF NEG /\ ~is_negative
             THEN drop(consume(CHECKED, DEC_DIVISOR, O, a0, to_digit(input[1]), FALSE))
             ELSE digits(a0)

\* .map(|(n, _, _)| n)
map_n(out) == IF out.res.some THEN Out(Some(out.res.v[1]), out.s) ELSE out

integer(O, st) == map_n(integer_internal(FALSE, FALSE, FALSE, O, st))
integer_checked(O, st) == map_n(integer_internal(TRUE, FALSE, FALSE, O, st))
integer_signed(O, st) == map_n(integer_internal(FALSE, TRUE, FALSE, O, st))
integer_signed_checked(O, st) == map_n(integer_internal(TRUE, TRUE, FALSE, O, st))

\* parsers.rs, the loop of internal_integer! from item idx + 1 of the input:
\*   for digit in s.input.slice_iter().map_while(I::to_digit) { .. idx += 1; }
\* checked: checked_mul / checked_sub / checked_add, whose None leaves the
\* closure through `?`; unchecked: `*`, `-` and `+` on $type
RECURSIVE internal_integer_loop(_, _, _, _, _, _)
internal_integer_loop(O, checked, neg, input, idx, acc) ==
    LET arith(x, then(_)) ==
            IF ~overflows(O, x) THEN then(x)
            ELSE IF checked THEN [ret |-> "none", idx |-> idx, acc |-> acc]
            ELSE IF env.overflow_checks THEN [ret |-> "panic", idx |-> idx, acc |-> acc]
            ELSE then(wrap(O, x))
        next(acc2) == internal_integer_loop(O, checked, neg, input, idx + 1, acc2)
        add(acc1) ==
            arith(IF neg THEN acc1 - to_digit(input[idx + 1])
                         ELSE acc1 + to_digit(input[idx + 1]), next)
    IN  IF idx + 1 > Len(input) \/ ~is_digit(input[idx + 1])
        THEN [ret |-> "ok", idx |-> idx, acc |-> acc]
        ELSE arith(acc * 10, add)

internal_integer(O, checked, neg, st) ==
    LET finish(a) ==
            IF a.ret = "panic" THEN Out(Panic, st)
            ELSE IF a.ret = "none" \/ a.idx = 0 THEN Out(None, st)
            ELSE Out(Some(a.acc), [st EXCEPT !.input = slice_from(st.input, a.idx)])
    IN  finish(internal_integer_loop(O, checked, neg, st.input, 0, 0))

\* float_internal: isize and usize are 16 bits wide here (the narrowest
\* target); the literals taken stay inside them
float_internal(CHECKED) ==
    Bind(IntegerInternal(CHECKED, TRUE, FALSE, I16),
         [fn |-> "float_internal", CHECKED |-> CHECKED])

float == float_internal(FALSE)

\* bound with float_internal's alternatives under or_no_partial
bound_no_partial(f, x) ==
    CASE f.fn = "internal_signed_integer" ->
           \* if x.is_some() { helper_fun_neg()(s) } else { helper_fun_pos()(s) }
           InternalInteger(f.id, f.O, f.checked, x.some)
      [] f.fn = "float_internal" ->
           OrNoPartial(Map([fn |-> "float_value", n |-> x[1], is_neg |-> x[3]],
                           Right(ItemIf({CH_dot}), IntegerInternal(f.CHECKED, FALSE, TRUE, U16))),
                       Pure([num |-> x[1], den |-> 1]))

\* the parser a closure handed to bind returns for the result x of the first
\* parser.  float_internal's, for x = (n, _, is_neg):
\*   or(right(item_if('.'), integer_internal::<CHECKED, false, true>()).map(..),
\*      pure!(cast_isize(n)))
bound(f, x) ==
    CASE f.fn = "internal_signed_integer" ->
           \* if x.is_some() { helper_fun_neg()(s) } else { helper_fun_pos()(s) }
           InternalInteger(f.id, f.O, f.checked, x.some)
      [] f.fn = "float_internal" ->
           Or(Map([fn |-> "float_value", n |-> x[1], is_neg |-> x[3]],
                  Right(ItemIf({CH_dot}), IntegerInternal(f.CHECKED, FALSE, TRUE, U16))),
              Pure([num |-> x[1], den |-> 1]))

\* create_parser!(s, f(p(s)?)(s))
bind(p, f, st) ==
    LET next(r) == IF r.res.some THEN Run(bound(f, r.res.v), r.s) ELSE r
    IN  next(Run(p, st))

\* u8::is_ascii_whitespace: space, tab, line feed, form feed, carriage return
is_ascii_whitespace(c) == c \in {CH_space, 9, 10, 12, 13}

\* skip!(AsciiWhitespace()): skips zero or more whitespace items, always Some
skip_ascii_whitespace(st) ==
    LET idx == slice_find_pred(st.input, {c \in 0..255 : ~is_ascii_whitespace(c)})
        count_whitespace == IF idx.some THEN idx.v ELSE slice_len(st.input)
    IN  Out(Some(Unit), [st EXCEPT !.input = slice_from(st.input, count_whitespace)])

\* the many family (combinators.rs)

separator(p, allow_trailing) == Some(<<allow_trailing, p>>)
no_separator == None

\* the closure f of many_internal: |_| {} under many, |v, x| v.push(x) under
\* many_to_vec
many_f(name, acc, x) == IF name = "many_to_vec" THEN Append(acc, x) ELSE acc

\* the loop body without the reset of has_trailing_sep
many_body_no_reset(name, sep, l, st) ==
    LET l1 == [l EXCEPT !.successes = TRUE,
                        !.acc = many_f(name, l.acc, l.res.v), !.prev = "elem"]
        r == Run(sep.v[2], st)
    IN  IF ~sep.some THEN [l |-> l1, s |-> st, break |-> FALSE]
        ELSE IF ~r.res.some THEN [l |-> l1, s |-> r.s, break |-> TRUE]
        ELSE [l |-> [l1 EXCEPT !.has_trailing_sep = TRUE, !.prev = "sep"],
              s |-> r.s, break |-> FALSE]

\* the body of `while let Some(res) = p(s)`, l.res being the Some(res)
many_body(name, sep, l, st) ==
    LET l1 == [l EXCEPT !.has_trailing_sep = FALSE, !.successes = TRUE,
                        !.acc = many_f(name, l.acc, l.res.v), !.prev = "elem"]
        r == Run(sep.v[2], st)
    IN  IF ~sep.some THEN [l |-> l1, s |-> st, break |-> FALSE]
        ELSE IF ~r.res.some THEN [l |-> l1, s |-> r.s, break |-> TRUE]
        ELSE [l |-> [l1 EXCEPT !.has_trailing_sep = TRUE, !.prev = "sep"],
              s |-> r.s, break |-> FALSE]

\* the returned bool with allow_empty left out
many_internal_ret_nonempty(allow_empty, sep, l) ==
    /\ ~(sep.some /\ ~sep.v[1] /\ l.has_trailing_sep)
    /\ l.successes

\* the bool many_internal returns after the loop
many_internal_ret(allow_empty, sep, l) ==
    /\ ~(sep.some /\ ~sep.v[1] /\ l.has_trailing_sep)
    /\ (allow_empty \/ l.successes)

\* the while loop of many_internal from the state st on, l being its locals
RECURSIVE many_loop(_, _, _, _, _)
many_loop(name, p, sep, l, st) ==
    LET body(b) == IF b.break THEN [l |-> b.l, s |-> b.s]
                   ELSE many_loop(name, p, sep, b.l, b.s)
        element(r) ==
            IF r.res.some THEN body(many_body(name, sep, [l EXCEPT !.res = r.res], r.s))
            ELSE [l |-> [l EXCEPT !.res = r.res], s |-> r.s]
    IN  element(Run(p, st))

\* many: many_internal(..).then_some(old_input.slice_to(consumed))
many(p, allow_empty, sep, st) ==
    LET old_input == st.input
        ret(o) ==
            IF many_internal_ret(allow_empty, sep, o.l)
            THEN Out(Some(slice_to(old_input,
                                   slice_len(old_input) - slice_len(o.s.input))), o.s)
            ELSE Out(None, o.s)
    IN  ret(many_loop("many", p, sep,
                      [old_input |-> old_input, successes |-> FALSE,
                       has_trailing_sep |-> FALSE, res |-> None, acc |-> << >>,
                       prev |-> "none"], st))

\* map_if(p, f): p(s).and_then(f), with the closures f the parsers here are
\* built with.  version_core's, for (i, p) = (parsed text, number):
\*   (!i.starts_with('0') || p == 0).then_some(p)
map_if(p, f, st) ==
    LET starts_with_0(i) == i # << >> /\ i[1] = CH_0
        and_then(x) ==
            CASE f.fn = "component" ->
                   IF ~starts_with_0(x[1]) \/ x[2] = 0 THEN Some(x[2]) ELSE None
        apply(r) == IF r.res.some THEN Out(and_then(r.res.v), r.s) ELSE r
    IN  apply(Run(p, st))

\* choose!: match p(s)? { arm => new_p(s), .., _ => None }
choose(p, arms, st) ==
    LET matched(r) ==
            IF ~r.res.some THEN r
            ELSE IF r.res.v \in DOMAIN arms THEN Run(arms[r.res.v], r.s)
            ELSE Out(None, r.s)
    IN  matched(Run(p, st))

\* tuplify!(p..): Some((p1(s)?, p2(s)?, ..)), from the k-th parser on, acc
\* being the results so far
RECURSIVE tuplify(_, _, _, _)
tuplify(ps, k, acc, st) ==
    LET next(r) == IF r.res.some THEN tuplify(ps, k + 1, Append(acc, r.res.v), r.s)
                   ELSE Out(None, r.s)
    IN  IF k > Len(ps) THEN Out(Some(acc), st) ELSE next(Run(ps[k], st))

-----------------------------------------------------------------------------
(* Applying a parser value: the call p(s).                                 *)

\* fn expr() of the chain example: an arithmetic expression over two
\* precedence levels.  The example's i64 is i16 here; every value of the
\* inputs taken fits either.
expr ==
    LET add_op == Map([fn |-> "ops"], Or(TakeItem(CH_plus), TakeItem(CH_minus)))
        mul_op == Map([fn |-> "ops"], Or(TakeItem(CH_star), TakeItem(CH_slash)))
        atom == Or(IntegerParser("integer_signed", I16),
                   Middle(Skip(<<CH_lparen>>), DeferParser("expr"), Skip(<<CH_rparen>>)))
        factor == Chain(atom, mul_op)
    IN  Chain(factor, add_op)

\* semver.rs, dot_separated with allow_trailing = true in its separator
dot_separated_allow_trailing(prefix, p) ==
    Attempt(Right(Skip(<<prefix>>),
                  ManyParser("many", p, FALSE, separator(Skip(<<CH_dot>>), TRUE))))

\* semver.rs: attempt(right(skip(prefix), many(p, false, separator(skip('.'), false))))
dot_separated(prefix, p) ==
    Attempt(Right(Skip(<<prefix>>),
                  ManyParser("many", p, FALSE, separator(Skip(<<CH_dot>>), FALSE))))

\* u64, held to 30 bits, which the checker's integers have room for; the
\* literals taken stay far below either limit
U64 == [MIN |-> 0, MAX |-> 1073741823]

\* semver.rs, fn semver() and the functions it is built from.  map!(f, p1,
\* p2, p3) runs its parsers as tuplify! does and applies f to the results.
semver ==
    LET digit == {c \in 0..255 : is_digit(c)}
        \* c.is_ascii_alphabetic() || c == '-'
        non_digit == (65..90) \cup (97..122) \cup {CH_minus}
        identifier_character == digit \cup non_digit
        digits == ItemWhile(digit)
        identifier_characters == NotEmpty(ItemWhile(identifier_character))
        numeric_identifier == Filter(NotEmpty(digits), [fn |-> "numeric_identifier"])
        alphanumeric_identifier == GetParsed(Right(digits, identifier_characters))
        build_identifier == identifier_characters
        pre_release_identifier == Or(alphanumeric_identifier, numeric_identifier)
        build == dot_separated(CH_plus, build_identifier)
        pre_release == dot_separated(CH_minus, pre_release_identifier)
        component == MapIf(AndParsed(IntegerParser("integer", U64)), [fn |-> "component"])
        major_minor == Left(component, Skip(<<CH_dot>>))
        version_core == Tuplify(<<major_minor, major_minor, component>>)
    IN  Left(Map([fn |-> "AnpaVersion"],
                 Tuplify(<<version_core, Succeed(pre_release), Succeed(build)>>)),
             Empty)

\* the parser a defer_parser! closure builds when it is called
deferred(f) == CASE f = "expr" -> expr

Run(p, st) ==
    CASE p.op = "success" -> Out(Some(Unit), st)
      [] p.op = "failure" -> Out(None, st)
      [] p.op = "rest" -> rest(st)
      [] p.op = "empty" -> empty(st)
      [] p.op = "item_if" -> item_if(p.pred, st)
      [] p.op = "item_while" -> item_while(p.pred, st)
      [] p.op = "take" -> take(p.prefix, st)
      [] p.op = "skip" -> skip(p.prefix, st)
      [] p.op = "succeed" -> succeed(p.p, st)
      [] p.op = "peek" -> peek(p.p, st)
      [] p.op = "attempt" -> attempt(p.p, st)
      [] p.op = "right" -> right(p.p1, p.p2, st)
      [] p.op = "left" -> left(p.p1, p.p2, st)
      [] p.op = "or" -> internal_or(TRUE, p.p1, p.p2, st)
      [] p.op = "or_no_partial" -> internal_or(FALSE, p.p1, p.p2, st)
      [] p.op = "or_diff" -> internal_or_diff(TRUE, p.p1, p.p2, st)
      [] p.op = "or_diff_no_partial" -> internal_or_diff(FALSE, p.p1, p.p2, st)
      [] p.op = "lift_to_state" -> lift_to_state(p.f, p.p, st)
      [] p.op = "greedy_or" -> greedy_or(p.p1, p.p2, st)
      [] p.op = "pure" -> Out(Some(p.x), st)
      [] p.op = "map" -> map(p.f, p.p, st)
      [] p.op = "filter" -> filter(p.p, p.f, st)
      [] p.op = "times" -> times(p.times, p.p, st)
      [] p.op = "count_consumed" -> count_consumed(p.p, st)
      [] p.op = "and_parsed" -> and_parsed(p.p, st)
      [] p.op = "get_parsed" -> get_parsed(p.p, st)
      [] p.op = "take_item" -> take_item(p.item, st)
      [] p.op = "chain" -> chain(p.p, p.op_p, st)
      [] p.op = "defer_parser" -> Run(deferred(p.f), st)
      [] p.op = "skip_ascii_whitespace" -> skip_ascii_whitespace(st)
      [] p.op = "bind" -> bind(p.p, p.f, st)
      [] p.op = "many" -> many(p.p, p.allow_empty, p.separator, st)
      [] p.op = "choose" -> choose(p.p, p.arms, st)
      [] p.op = "map_if" -> map_if(p.p, p.f, st)
      [] p.op = "tuplify" -> tuplify(p.ps, 1, << >>, st)
      [] p.op = "internal_integer" -> internal_integer(p.O, p.checked, p.neg, st)
      [] p.op = "integer_internal" ->
            integer_internal(p.CHECKED, p.NEG, p.DEC_DIVISOR, p.O, st)
      [] p.op = "integer" -> integer(p.O, st)
      [] p.op = "integer_checked" -> integer_checked(p.O, st)
      [] p.op = "integer_signed" -> integer_signed(p.O, st)
      [] p.op = "integer_signed_checked" -> integer_signed_checked(p.O, st)
      [] p.op = "find_byte" -> find_byte(p.finder, p.consume_result, st)
      [] p.op = "until_byte" ->
            until_byte(p.finder, p.include_result, p.consume_result, st)

-----------------------------------------------------------------------------
(* One top-level call of a combinator on a fresh parse state.              *)

\* all byte slices of length 0..n over the items in alphabet
SeqsUpTo(alphabet, n) == UNION {[1..k -> alphabet] : k \in 0..n}

\* lift_to_state(|v, x| v.push(x), rest()): always succeeds and records in
\* the accumulator the cursor it was called with
Probe == LiftToState("push", Rest)

\* the parsers called: pairs of one result type under or, or_no_partial and
\* greedy_or, a slice parser and a unit parser under or_diff
CombParsers ==
    LET \* parsers with result type &[u8]
        SliceParsers ==
            { Take(<<CH_a>>), Take(<<CH_a, CH_b>>), ItemWhile({CH_a}), Rest,
              Left(Rest, Take(<<CH_b>>)),
              Right(Skip(<<CH_a>>), Take(<<CH_b>>)) }
        \* parsers with result type ()
        UnitParsers ==
            { Skip(<<CH_a>>), Success, Failure, Probe,
              Right(Skip(<<CH_a>>), Failure),
              Right(Rest, Failure),
              LiftToState("push", Take(<<CH_a>>)),
              Right(LiftToState("push", Take(<<CH_a>>)), Failure) }
        SameTypePairs == (SliceParsers \X SliceParsers) \cup (UnitParsers \X UnitParsers)
        \* parsers that fail on a result they have consumed input for
        Filtered ==
            { Filter(ItemWhile({CH_a}), [fn |-> "eq", x |-> <<CH_a, CH_a>>]),
              Filter(Rest, [fn |-> "eq", x |-> << >>]) }
    IN  {Or(q[1], q[2]) : q \in SameTypePairs}
        \cup {OrNoPartial(q[1], q[2]) : q \in SameTypePairs}
        \cup {OrNoPartial(Attempt(q[1]), q[2]) : q \in SameTypePairs}
        \cup {OrDiff(q[1], q[2]) : q \in SliceParsers \X UnitParsers}
        \cup {OrDiffNoPartial(q[1], q[2]) : q \in SliceParsers \X UnitParsers}
        \cup {GreedyOr(q[1], q[2]) : q \in SameTypePairs}
        \cup {GreedyOr3(q[1], q[2], q[3]) :
                 q \in SliceParsers \X SliceParsers \X SliceParsers}
        \cup {Attempt(p) : p \in SliceParsers \cup UnitParsers \cup Filtered}
        \cup {Succeed(p) : p \in SliceParsers \cup UnitParsers \cup Filtered}
        \cup {Peek(p) : p \in SliceParsers \cup UnitParsers \cup Filtered}
        \cup UNION { {CountConsumed(p), AndParsed(p), GetParsed(p)} :
                       p \in SliceParsers \cup UnitParsers \cup Filtered
                             \cup {Peek(Rest), Attempt(Right(Rest, Failure))} }

MaxTimes == 3

\* lift_to_state(|v, x| v.push(x), peek(rest())): records the cursor of each
\* call and consumes nothing
Logged == LiftToState("push", Peek(Rest))

TimesParsers ==
    { Times(n, p) :
        n \in 0..MaxTimes,
        p \in { Take(<<CH_a>>), ItemIf({CH_a, CH_b}), Right(Logged, Take(<<CH_a>>)),
                Right(Logged, Right(Skip(<<CH_a>>), Take(<<CH_b>>))) } }

\* tests::times_test: times(4, left(take('1'), take('2'))) on "12121212End"
\* and on "121212"
TimesTest ==
    LET one == CH_0 + 1
        two == CH_0 + 2
    IN  [ p |-> Times(4, Left(TakeItem(one), TakeItem(two))),
          inputs |-> { <<one, two, one, two, one, two, one, two, 69, 110, 100>>,
                       <<one, two, one, two, one, two>> } ]

\* the build: the byte size of usize and whether arithmetic overflow panics
Build(chunk_size, overflow_checks) ==
    [chunk_size |-> chunk_size, overflow_checks |-> overflow_checks]

NoLocals == [none |-> TRUE]

InitComb ==
    /\ env = Build(8, FALSE)
    /\ \/ /\ parser \in CombParsers \cup TimesParsers
          /\ \E input \in SeqsUpTo({CH_a, CH_b}, MaxInputLen),
                user_state \in {<< >>, <<<<CH_b>>>>} :
                s = AnpaState(input, user_state)
       \/ /\ parser = TimesTest.p
          /\ \E input \in TimesTest.inputs : s = AnpaState(input, << >>)
    /\ start = s
    /\ result = None
    /\ pc = "ready"
    /\ loc = NoLocals

\* the call returns: the state is the one the parser left, the result its Option
Return(out) ==
    /\ s' = out.s
    /\ result' = out.res
    /\ pc' = "done"
    /\ UNCHANGED <<env, parser, start, loc>>

CallOr ==
    /\ pc = "ready" /\ parser.op = "or"
    /\ Return(internal_or(TRUE, parser.p1, parser.p2, s))

CallOrNoPartial ==
    /\ pc = "ready" /\ parser.op = "or_no_partial"
    /\ Return(internal_or(FALSE, parser.p1, parser.p2, s))

CallOrDiff ==
    /\ pc = "ready" /\ parser.op = "or_diff"
    /\ Return(internal_or_diff(TRUE, parser.p1, parser.p2, s))

CallOrDiffNoPartial ==
    /\ pc = "ready" /\ parser.op = "or_diff_no_partial"
    /\ Return(internal_or_diff(FALSE, parser.p1, parser.p2, s))

CallGreedyOr ==
    /\ pc = "ready" /\ parser.op = "greedy_or"
    /\ Return(greedy_or(parser.p1, parser.p2, s))

CallAttempt ==
    /\ pc = "ready" /\ parser.op = "attempt"
    /\ Return(attempt(parser.p, s))

CallPeek ==
    /\ pc = "ready" /\ parser.op = "peek"
    /\ Return(peek(parser.p, s))

CallSucceed ==
    /\ pc = "ready" /\ parser.op = "succeed"
    /\ Return(succeed(parser.p, s))

CallTimes ==
    /\ pc = "ready" /\ parser.op = "times"
    /\ Return(times(parser.times, parser.p, s))

CallCountConsumed ==
    /\ pc = "ready" /\ parser.op = "count_consumed"
    /\ Return(count_consumed(parser.p, s))

CallAndParsed ==
    /\ pc = "ready" /\ parser.op = "and_parsed"
    /\ Return(and_parsed(parser.p, s))

CallGetParsed ==
    /\ pc = "ready" /\ parser.op = "get_parsed"
    /\ Return(get_parsed(parser.p, s))

NextComb ==
    \/ CallCountConsumed
    \/ CallAndParsed
    \/ CallGetParsed
    \/ CallTimes
    \/ CallOr
    \/ CallOrNoPartial
    \/ CallOrDiff
    \/ CallOrDiffNoPartial
    \/ CallGreedyOr
    \/ CallAttempt
    \/ CallPeek
    \/ CallSucceed

SpecComb == InitComb /\ [][NextComb]_vars

-----------------------------------------------------------------------------
(* Properties of the alternation and backtracking combinators (SpecComb).  *)

\* items consumed by a run that started at the call's starting cursor
Consumed(r) == slice_len(start.input) - slice_len(r.s.input)

\* the state with the cursor back at the call's start and the accumulator as r left it
Rewound(r) == AnpaState(start.input, r.s.user_state)

\* C2: or(p1, p2) returns p1's outcome when p1 succeeds; when p1 fails,
\* however much it consumed, p2 runs from the cursor the call started with
\* (the probe records exactly that cursor) and its outcome is the result.
C2_OrBacktracks ==
    (pc = "done" /\ parser.op = "or") =>
        LET r1 == Run(parser.p1, start)
            r2 == Run(parser.p2, Rewound(r1))
        IN  IF r1.res.some
            THEN result = r1.res /\ s = r1.s
            ELSE /\ result = r2.res /\ s = r2.s
                 /\ (parser.p2 = Probe =>
                        s.user_state[Len(s.user_state)] = start.input)

\* p1 consumed three items and failed, the probe p2 then saw the whole input
C2_Witness ==
    /\ pc = "done" /\ parser.op = "or" /\ parser.p2 = Probe
    /\ ~Run(parser.p1, start).res.some
    /\ Consumed(Run(parser.p1, start)) = 3
    /\ result = Some(Unit)
    /\ s.user_state[Len(s.user_state)] = start.input

\* C3: or_no_partial / or_diff_no_partial: when p1 fails having consumed
\* input, the call fails with the state exactly as p1 left it (p2 never ran);
\* when p1 fails without consuming, the outcome is that of or / or_diff.
C3_NoPartialCut ==
    (pc = "done" /\ parser.op \in {"or_no_partial", "or_diff_no_partial"}) =>
        LET r1 == Run(parser.p1, start)
            like_or == IF parser.op = "or_no_partial"
                       THEN Run(Or(parser.p1, parser.p2), start)
                       ELSE Run(OrDiff(parser.p1, parser.p2), start)
        IN  ~r1.res.some =>
              IF slice_len(r1.s.input) # slice_len(start.input)
              THEN result = None /\ s = r1.s
              ELSE result = like_or.res /\ s = like_or.s

\* p1 consumed and failed; the always-succeeding probe p2 left no mark
C3_Witness ==
    /\ pc = "done" /\ parser.op = "or_no_partial" /\ parser.p2 = Probe
    /\ ~Run(parser.p1, start).res.some
    /\ Consumed(Run(parser.p1, start)) > 0
    /\ result = None
    /\ s.user_state = start.user_state

\* C4: a branch that pushed to the accumulator and then failed inside or,
\* attempt or peek: the cursor is back at the start, the pushes stay, the
\* next alternative of or runs on them, and the final state holds them.
C4_AccumulatorNotRolledBack ==
    (pc = "done" /\ parser.op \in {"or", "attempt", "peek"}) =>
        LET branch == IF parser.op = "or" THEN parser.p1 ELSE parser.p
            r1 == Run(branch, start)
            r2 == Run(parser.p2, Rewound(r1))
        IN  (~r1.res.some /\ r1.s.user_state # start.user_state) =>
              /\ IsPrefixOf(r1.s.user_state, s.user_state)
              /\ (parser.op \in {"attempt", "peek"} =>
                     result = None /\ s = Rewound(r1))
              /\ (parser.op = "or" => result = r2.res /\ s = r2.s)

\* the failed first branch pushed <<a>>, the probe then pushed the whole input
C4_Witness ==
    /\ pc = "done" /\ parser.op = "or" /\ parser.p2 = Probe
    /\ ~Run(parser.p1, start).res.some
    /\ s.input = << >>
    /\ s.user_state = start.user_state \o <<<<CH_a>>, start.input>>

\* C9: greedy_or runs every alternative from the starting cursor; the result
\* and the final cursor are those of the successful alternative that consumed
\* the most, the earliest one on a tie; it fails when none succeeds.  Covers
\* greedy_or(p1, p2) and greedy_or!(a, b, c) = greedy_or(a, greedy_or(b, c)).
C9_GreedyOrPicksLongest ==
    (pc = "done" /\ parser.op = "greedy_or") =>
        LET alts == IF parser.p2.op = "greedy_or"
                    THEN <<parser.p1, parser.p2.p1, parser.p2.p2>>
                    ELSE <<parser.p1, parser.p2>>
            runs[k \in 1..Len(alts)] ==
                Run(alts[k], AnpaState(start.input,
                                       IF k = 1 THEN start.user_state
                                       ELSE runs[k - 1].s.user_state))
            ok == {k \in 1..Len(alts) : runs[k].res.some}
            best == CHOOSE k \in ok : \A j \in ok :
                        \/ Consumed(runs[k]) > Consumed(runs[j])
                        \/ Consumed(runs[k]) = Consumed(runs[j]) /\ k <= j
        IN  IF ok = {} THEN result = None
            ELSE result = runs[best].res /\ s.input = runs[best].s.input

\* both alternatives succeeded on the same number of items with different
\* results, and the first one's result was returned
C9_Witness ==
    /\ pc = "done" /\ parser.op = "greedy_or" /\ parser.p2.op # "greedy_or"
    /\ LET r1 == Run(parser.p1, start)
           r2 == Run(parser.p2, Rewound(r1))
       IN  /\ r1.res.some /\ r2.res.some
           /\ Consumed(r1) = Consumed(r2) /\ Consumed(r1) > 0
           /\ r1.res # r2.res
           /\ result = r1.res

\* C28: succeed(p) always succeeds: Some(r) inside when p returned r, None
\* inside when p failed, and in both cases the state is the one p left, so a
\* failed p keeps what it consumed and what it wrote to the accumulator.
C28_SucceedKeepsInnerState ==
    (pc = "done" /\ parser.op = "succeed") =>
        LET inner(r) ==
                /\ result.some
                /\ result.v = r.res
                /\ ~r.res.some => result = Some(None)
                /\ s = r.s
        IN  inner(Run(parser.p, start))

\* succeed(right(skip("a"), failure())) on "ab": Some(None) with the cursor
\* after the 'a'
C28_Witness ==
    /\ pc = "done"
    /\ parser = Succeed(Right(Skip(<<CH_a>>), Failure))
    /\ start = AnpaState(<<CH_a, CH_b>>, << >>)
    /\ result = Some(None)
    /\ s = AnpaState(<<CH_b>>, << >>)

\* C26: greedy_or(p1, p2) calls p1 and then p2, whatever p1 returned: the
\* accumulator after the call is the one p2 left when run from the starting
\* cursor on the accumulator p1 left, so it holds the writes of both, p1's
\* first, also those of the alternative that was not chosen.
C26_GreedyOrRunsBoth ==
    (pc = "done" /\ parser.op = "greedy_or") =>
        LET r1 == Run(parser.p1, start)
            r2 == Run(parser.p2, Rewound(r1))
        IN  /\ s.user_state = r2.s.user_state
            /\ IsPrefixOf(start.user_state, r1.s.user_state)
            /\ IsPrefixOf(r1.s.user_state, s.user_state)
            \* a probe as second alternative has logged its call after p1's writes
            /\ parser.p2 = Probe =>
                   s.user_state = r1.s.user_state \o <<start.input>>
            /\ parser.p1 = Probe =>
                   /\ r1.s.user_state = start.user_state \o <<start.input>>
                   /\ Len(s.user_state) > Len(start.user_state)

\* on "ab" the probe, first, took both items and was chosen; the second
\* alternative, take("a") pushing its result, had run all the same, after it
C26_Witness ==
    /\ pc = "done"
    /\ parser = GreedyOr(Probe, LiftToState("push", Take(<<CH_a>>)))
    /\ start = AnpaState(<<CH_a, CH_b>>, << >>)
    /\ result = Some(Unit)
    /\ s = AnpaState(<< >>, << <<CH_a, CH_b>>, <<CH_a>> >>)

\* C15: peek(p) returns exactly what p returns, success or failure, and
\* leaves the cursor where it was before the call, however much p consumed;
\* what p wrote to the user state stays.
C15_PeekRestoresCursor ==
    (pc = "done" /\ parser.op = "peek") =>
        LET r == Run(parser.p, start)
        IN  /\ result = r.res
            /\ s.input = start.input
            /\ s.user_state = r.s.user_state

\* p succeeded on three items and the cursor is back at the start
C15_Witness ==
    /\ pc = "done" /\ parser.op = "peek"
    /\ Run(parser.p, start).res.some
    /\ Consumed(Run(parser.p, start)) = 3
    /\ result.some
    /\ s.input = start.input

\* C16: attempt(p) returns p's result; when p failed the cursor is the one
\* before the call, whatever p had consumed, and when p succeeded the cursor
\* is where p left it.
C16_AttemptRestoresOnFailure ==
    (pc = "done" /\ parser.op = "attempt") =>
        LET r == Run(parser.p, start)
        IN  /\ result = r.res
            /\ IF r.res.some THEN s = r.s ELSE s.input = start.input

\* a filter rejected the three items item_while had consumed, and the
\* cursor is back at the start
C16_Witness ==
    /\ pc = "done" /\ parser = Attempt(Filter(ItemWhile({CH_a}), [fn |-> "eq", x |-> <<CH_a, CH_a>>]))
    /\ Consumed(Run(parser.p, start)) = 3
    /\ result = None
    /\ s.input = start.input

\* C17: times(n, p) applies p up to n times, each from where the one before
\* left the state.  When all n succeed it returns the span they consumed
\* together, the cursor right after it.  When one fails the call fails and
\* the state is the one that failing application left: p was not run again
\* (the log of p's calls in the user state ends there).  tests::times_test:
\* "12121212End" gives "12121212" and leaves "End".
C17_TimesAllOrFail ==
    (pc = "done" /\ parser.op = "times") =>
        LET n == parser.times
            runs[k \in 0..n] ==
                IF k = 0 THEN Out(Some(Unit), start) ELSE Run(parser.p, runs[k - 1].s)
            failing == {k \in 1..n : ~runs[k].res.some}
            first_failing == CHOOSE k \in failing : \A j \in failing : k <= j
        IN  /\ IF failing = {}
               THEN /\ s = runs[n].s
                    /\ result.some
                    /\ result.v \o s.input = start.input
               ELSE /\ result = None
                    /\ s = runs[first_failing].s
            /\ (parser = TimesTest.p /\ Len(start.input) = 11) =>
                  /\ result = Some(SubSeq(start.input, 1, 8))
                  /\ s.input = <<69, 110, 100>>

\* tests::times_test on "12121212End": four rounds, "End" left
C17_Witness ==
    /\ pc = "done" /\ parser = TimesTest.p
    /\ Len(start.input) = 11
    /\ result = Some(SubSeq(start.input, 1, 8))
    /\ s.input = <<69, 110, 100>>

\* C20: count_consumed(p), and_parsed(p) and get_parsed(p) fail when p
\* fails.  When p succeeds the state is the one p left; the slice returned
\* by and_parsed and get_parsed is the part of the starting cursor that p
\* consumed (followed by the cursor left, it is the starting cursor), the
\* count returned by count_consumed is the length of that part, and
\* count_consumed and and_parsed return p's own result next to it.
C20_ConsumedSpan ==
    (pc = "done" /\ parser.op \in {"count_consumed", "and_parsed", "get_parsed"}) =>
        LET r == Run(parser.p, start)
            span == IF parser.op = "get_parsed" THEN result.v ELSE result.v[1]
        IN  IF ~r.res.some THEN result = None
            ELSE /\ result.some
                 /\ s = r.s
                 /\ parser.op = "count_consumed" =>
                        /\ span = Len(start.input) - Len(s.input)
                        /\ result.v[2] = r.res.v
                 /\ parser.op = "and_parsed" =>
                        /\ span \o s.input = start.input
                        /\ result.v[2] = r.res.v
                 /\ parser.op = "get_parsed" => span \o s.input = start.input

\* and_parsed(right(skip(a), take(b))) on "aba": the span "ab", p's result
\* "b", and "a" left
C20_Witness ==
    /\ pc = "done" /\ parser = AndParsed(Right(Skip(<<CH_a>>), Take(<<CH_b>>)))
    /\ start.input = <<CH_a, CH_b, CH_a>>
    /\ result = Some(<<<<CH_a, CH_b>>, <<CH_b>>>>)
    /\ s.input = <<CH_a>>

\* C25: or_no_partial(attempt(p1), p2) gives the result and the cursor
\* (and the accumulator) that or(p1, p2) gives from the same state: attempt
\* has put the cursor back when p1 fails, so or_no_partial sees nothing
\* consumed and goes on to p2.
C25_AttemptUnderNoPartialIsOr ==
    (pc = "done" /\ parser.op = "or_no_partial" /\ parser.p1.op = "attempt") =>
        /\ Out(result, s) = internal_or(TRUE, parser.p1.p, parser.p2, start)
        /\ ~Run(parser.p1, start).res.some =>
               /\ Consumed(Run(parser.p1, start)) = 0
               /\ Out(result, s) = Run(parser.p2, Rewound(Run(parser.p1, start)))

\* on "aa", right(skip("a"), take("b")) consumed an item and failed; under
\* attempt the second alternative take("a") was still tried and succeeded
C25_Witness ==
    /\ pc = "done"
    /\ parser = OrNoPartial(Attempt(Right(Skip(<<CH_a>>), Take(<<CH_b>>))), Take(<<CH_a>>))
    /\ start.input = <<CH_a, CH_a>>
    /\ Consumed(Run(parser.p1.p, start)) = 1
    /\ result = Some(<<CH_a>>)
    /\ s.input = <<CH_a>>

-----------------------------------------------------------------------------
(* SpecFind: one call of find_byte on a byte buffer, or a call of          *)
(* until_byte and then the same until_byte again on the cursor the first   *)
(* call left, on a target with 8-byte or with 4-byte words.                *)

MaxBufLen == 9

\* buffers of one filler byte with two adjacent bytes chosen freely
FindInputs ==
    LET FindBytes == {0, 1, 255}
    IN  { [i \in 1..n |-> IF i = k THEN x ELSE IF i = k + 1 THEN y ELSE filler] :
            n \in 0..MaxBufLen, k \in 1..MaxBufLen, x \in FindBytes, y \in FindBytes,
            filler \in FindBytes }

Finders ==
    { EqByte(0), EqByte(1), EqByte(255),
      NeByte(0), NeByte(255),
      LtByte(1), LtByte(255),
      GtByte(0), GtByte(1),
      bitor(EqByte(0), EqByte(255)),
      bitor(bitor(EqByte(1), EqByte(255)), LtByte(1)) }

InitFind ==
    /\ env \in {Build(8, FALSE), Build(4, FALSE)}
    /\ \E finder \in Finders, include_result \in BOOLEAN, consume_result \in BOOLEAN :
          \/ parser = FindByte(finder, consume_result)
          \/ parser = UntilByte(finder, include_result, consume_result)
    /\ \E input \in FindInputs : s = AnpaState(input, << >>)
    /\ start = s
    /\ result = None
    /\ pc = "ready"
    /\ loc = NoLocals

CallFindByte ==
    /\ pc = "ready" /\ parser.op = "find_byte"
    /\ Return(find_byte(parser.finder, parser.consume_result, s))

CallUntilByte ==
    /\ pc = "ready" /\ parser.op = "until_byte"
    /\ Return(until_byte(parser.finder, parser.include_result, parser.consume_result, s))

\* the same until_byte once more, on the cursor its first call left; loc
\* keeps the first call's result and that cursor
UntilByteAgain ==
    /\ pc = "done" /\ parser.op = "until_byte" /\ result.some
    /\ LET out == until_byte(parser.finder, parser.include_result,
                             parser.consume_result, s)
       IN  /\ s' = out.s
           /\ result' = out.res
    /\ loc' = [first_result |-> result, remainder |-> s.input]
    /\ pc' = "done_again"
    /\ UNCHANGED <<env, parser, start>>

NextFind ==
    \/ CallFindByte
    \/ CallUntilByte
    \/ UntilByteAgain

SpecFind == InitFind /\ [][NextFind]_vars

\* C1: find_byte returns what the byte-at-a-time scan returns: None when no
\* byte of the buffer satisfies the finder, otherwise the first such byte,
\* with the cursor at its index (one past it when consume_result is set).
C1_FindByteEqualsScan ==
    (pc = "done" /\ parser.op = "find_byte") =>
        LET \* the byte-at-a-time reference: the first index that satisfies slow_cmp
            scan == slice_find_pred(start.input,
                                    {x \in 0..255 : slow_cmp(parser.finder, x)})
        IN  IF ~scan.some
            THEN result = None /\ s = start
            ELSE /\ result = Some(start.input[scan.v + 1])
                 /\ s.input = slice_from(start.input,
                                  scan.v + bool_into(parser.consume_result))

\* C12 (as stated): when until_byte has succeeded and the same until_byte
\* is run on the cursor it left, a match it reports lies, as an index into
\* the original buffer, strictly after the first match, whatever
\* include_result and consume_result are.
C12_SecondMatchStrictlyAfter ==
    (pc = "done_again" /\ result.some) =>
        LET include == bool_into(parser.include_result)
            first_match == Len(loc.first_result.v) - include
            second_match == (Len(start.input) - Len(loc.remainder))
                               + Len(result.v) - include
        IN  second_match > first_match

\* C12 (amended): with consume_result = true a second match lies strictly
\* after the first; with consume_result = false the cursor still starts at
\* the matched byte, a second match is never before the first, and an eq
\* finder reports the very same byte again.  include_result changes neither.
C12_ForwardProgress ==
    pc = "done_again" =>
        LET include == bool_into(parser.include_result)
            first_match == Len(loc.first_result.v) - include
            second_match == (Len(start.input) - Len(loc.remainder))
                               + Len(result.v) - include
        IN  /\ Len(loc.remainder) =
                   Len(start.input) - first_match - bool_into(parser.consume_result)
            /\ (result.some /\ parser.consume_result) => second_match > first_match
            /\ (result.some /\ ~parser.consume_result) => second_match >= first_match
            /\ (~parser.consume_result /\ parser.finder.k = "eq") =>
                   result.some /\ second_match = first_match

\* eq(1) with consume_result = true: the first call matched index 1, the
\* second one index 2 of the original buffer
C12_Witness ==
    /\ pc = "done_again" /\ result.some
    /\ parser = UntilByte(EqByte(1), FALSE, TRUE)
    /\ Len(loc.first_result.v) = 1
    /\ Len(start.input) - Len(loc.remainder) = 2
    /\ result.v = << >>

\* C13: the outcome of find_byte / until_byte on a buffer does not depend on
\* the word size: the search with 8-byte words, the search with 4-byte words
\* and the byte-at-a-time scan find the same byte at the same index or all
\* find none, and the call's result and cursor are those of that outcome.
C13_WordSizeIndependent ==
    (pc = "done" /\ parser.op \in {"find_byte", "until_byte"}) =>
        LET words8 == get_byte_pos(start.input, parser.finder, 8)
            words4 == get_byte_pos(start.input, parser.finder, 4)
            scan == slice_find_pred(start.input,
                                    {x \in 0..255 : slow_cmp(parser.finder, x)})
            bytewise == IF scan.some THEN Some(<<start.input[scan.v + 1], scan.v>>)
                        ELSE None
        IN  /\ words8 = words4
            /\ words8 = bytewise
            /\ result.some = words8.some
            /\ IF words8.some
               THEN s.input = slice_from(start.input,
                                 words8.v[2] + bool_into(parser.consume_result))
               ELSE s = start

\* C14: find_byte(finder, consume_result): when no byte of the input
\* satisfies the finder the call fails and the cursor is the one it started
\* with; when some byte does, the call returns the first such byte and the
\* cursor starts right after it if consume_result is set, at it if not.
C14_FindByteOutcome ==
    (pc = "done" /\ parser.op = "find_byte") =>
        LET matching == {i \in 1..Len(start.input) :
                            slow_cmp(parser.finder, start.input[i])}
            first == CHOOSE i \in matching : \A j \in matching : i <= j
        IN  IF matching = {}
            THEN result = None /\ s.input = start.input
            ELSE /\ result = Some(start.input[first])
                 /\ s.input = SubSeq(start.input,
                                     IF parser.consume_result THEN first + 1 ELSE first,
                                     Len(start.input))

\* C21: for a basic finder (eq, ne, lt, gt) and every whole word of the
\* buffer, intermediate(word) & HIGH_BITS has the top bit of a lane set if
\* and only if the byte of that lane satisfies the finder's condition: no
\* lane is flagged through a borrow from a lower lane and no satisfying
\* lane is missed.
C21_FlagsExactlyMatchingLanes ==
    parser.finder.k \in {"eq", "ne", "lt", "gt"} =>
        \A c \in 0..((Len(start.input) \div env.chunk_size) - 1) :
            LET word == SubSeq(start.input, c * env.chunk_size + 1,
                               (c + 1) * env.chunk_size)
                present == word_op("and", intermediate(parser.finder, word),
                                   HIGH_BITS(env.chunk_size))
            IN  \A lane \in 1..env.chunk_size :
                    (Bit(present[lane], 7) = 1) <=> slow_cmp(parser.finder, word[lane])

-----------------------------------------------------------------------------
(* SpecNum: one call of an integer parser on a decimal literal, with or    *)
(* without a sign, a leading zero and a trailing non-digit, in a build     *)
(* with and in a build without overflow checks.                            *)

MaxNum == 300

RECURSIVE Decimal(_)
Decimal(n) ==
    IF n < 10 THEN <<CH_0 + n>> ELSE Append(Decimal(n \div 10), CH_0 + (n % 10))

NumInputs ==
    LET \* literals beyond MaxNum: one digit more than fits, and the values
        \* around ten times the types' limits
        NumExtras == {1000, 1270, 1280, 1290, 1300, 2550, 2560}
    IN  { sign \o body \o suffix :
            sign \in {<< >>, <<CH_minus>>},
            body \in {<< >>} \cup {lead \o Decimal(n) :
                                     lead \in {<< >>, <<CH_0>>},
                                     n \in (0..MaxNum) \cup NumExtras},
            suffix \in {<< >>, <<CH_a>>} }

MaxFracLen == 3

\* [-]digits[.digits], with and without a trailing item, the part after the
\* '.' being empty too, and [-]digits.-5
FloatInputs ==
    { sign \o Decimal(n) \o <<CH_dot, CH_minus, CH_0 + 5>> :
        sign \in {<< >>, <<CH_minus>>}, n \in {0, 1, 13} } \cup
    { sign \o Decimal(n) \o tail \o suffix :
        sign \in {<< >>, <<CH_minus>>},
        n \in {0, 1, 13},
        tail \in {<< >>} \cup
                 { <<CH_dot>> \o frac :
                     frac \in SeqsUpTo({CH_0, CH_0 + 1, CH_0 + 2, CH_0 + 3, CH_0 + 7},
                                       MaxFracLen) },
        suffix \in {<< >>, <<CH_a>>} }

\* literals around the limits of the 16-bit types and ten times them
WideInputs ==
    { sign \o Decimal(n) \o suffix :
        sign \in {<< >>, <<CH_minus>>},
        n \in {0, 7, 3276, 3277, 6553, 6554, 32767, 32768, 32769, 65535, 65536,
               65540, 99999, 327670, 327680, 655350, 655360},
        suffix \in {<< >>, <<CH_a>>} }

\* the functions parsers.rs generates with internal_integer! and
\* internal_signed_integer!, each with the arguments of its macro call; of
\* the types wider than 16 bits only usize and isize are kept, at the 16
\* bits of the narrowest target
GeneratedIntegers ==
    [ narrow |->
        { InternalInteger("integer_u8_checked", U8, TRUE, FALSE),
          InternalInteger("integer_u8", U8, FALSE, FALSE),
          InternalSignedInteger("integer_i8", I8, FALSE),
          InternalSignedInteger("integer_i8_checked", I8, TRUE) },
      wide |->
        { InternalInteger("integer_u16_checked", U16, TRUE, FALSE),
          InternalInteger("integer_usize_checked", U16, TRUE, FALSE),
          InternalInteger("integer_u16", U16, FALSE, FALSE),
          InternalInteger("integer_usize", U16, FALSE, FALSE),
          InternalSignedInteger("integer_i16", I16, FALSE),
          InternalSignedInteger("integer_isize", I16, FALSE),
          InternalSignedInteger("integer_i16_checked", I16, TRUE),
          InternalSignedInteger("integer_isize_checked", I16, FALSE) } ]

InitNum ==
    /\ env \in {Build(8, FALSE), Build(8, TRUE)}
    /\ \/ /\ parser \in GeneratedIntegers.narrow
          /\ \E input \in NumInputs : s = AnpaState(input, << >>)
       \/ /\ parser \in GeneratedIntegers.wide
          /\ \E input \in WideInputs : s = AnpaState(input, << >>)
       \/ /\ parser \in
               { IntegerParser("integer", U8), IntegerParser("integer_checked", U8),
                 IntegerParser("integer_signed", I8),
                 IntegerParser("integer_signed_checked", I8) }
          /\ \E input \in NumInputs : s = AnpaState(input, << >>)
       \/ /\ parser = float
          /\ \E input \in FloatInputs : s = AnpaState(input, << >>)
    /\ start = s
    /\ result = None
    /\ pc = "ready"
    /\ loc = NoLocals

CallInteger ==
    /\ pc = "ready" /\ parser.op = "integer"
    /\ Return(integer(parser.O, s))

CallIntegerChecked ==
    /\ pc = "ready" /\ parser.op = "integer_checked"
    /\ Return(integer_checked(parser.O, s))

CallIntegerSigned ==
    /\ pc = "ready" /\ parser.op = "integer_signed"
    /\ Return(integer_signed(parser.O, s))

CallIntegerSignedChecked ==
    /\ pc = "ready" /\ parser.op = "integer_signed_checked"
    /\ Return(integer_signed_checked(parser.O, s))

\* float(): integer_internal(..).bind(..)
CallFloat ==
    /\ pc = "ready" /\ parser.op = "bind" /\ parser.f.fn = "float_internal"
    /\ Return(bind(parser.p, parser.f, s))

\* a function generated by internal_integer!
CallInternalInteger ==
    /\ pc = "ready" /\ parser.op = "internal_integer"
    /\ Return(internal_integer(parser.O, parser.checked, parser.neg, s))

\* a function generated by internal_signed_integer!
CallInternalSignedInteger ==
    /\ pc = "ready" /\ parser.op = "bind" /\ parser.f.fn = "internal_signed_integer"
    /\ Return(bind(parser.p, parser.f, s))

NextNum ==
    \/ CallInternalInteger
    \/ CallInternalSignedInteger
    \/ CallFloat
    \/ CallInteger
    \/ CallIntegerChecked
    \/ CallIntegerSigned
    \/ CallIntegerSignedChecked

SpecNum == InitNum /\ [][NextNum]_vars

\* the length of the maximal run of decimal digits from the k-th item on
RECURSIVE DigitRunLen(_, _)
DigitRunLen(input, k) ==
    IF k > Len(input) \/ ~is_digit(input[k]) THEN 0 ELSE 1 + DigitRunLen(input, k + 1)

\* the number a sequence of decimal digits denotes
RECURSIVE DigitsValue(_)
DigitsValue(digits) ==
    IF digits = << >> THEN 0
    ELSE 10 * DigitsValue(SubSeq(digits, 1, Len(digits) - 1))
           + to_digit(digits[Len(digits)])

\* C29: integer, integer_checked, integer_signed and integer_signed_checked
\* leave the state exactly as it was when they return None, which they do
\* whenever no digit follows the optional '-'; when they succeed the cursor
\* has moved over the '-' (signed parsers only) and the maximal run of digits
\* after it, so that the rest starts at the first item that is no digit.
C29_IntegerCursor ==
    (/\ pc = "done"
     /\ parser.op \in {"integer", "integer_checked", "integer_signed",
                       "integer_signed_checked"}) =>
        LET input == start.input
            sign == IF /\ parser.op \in {"integer_signed", "integer_signed_checked"}
                       /\ input # << >> /\ input[1] = CH_minus
                    THEN 1 ELSE 0
            digits == DigitRunLen(input, sign + 1)
        IN  /\ result = None => s = start
            /\ digits = 0 => result = None
            /\ result.some =>
                   /\ digits >= 1
                   /\ s.input = SubSeq(input, sign + digits + 1, Len(input))
                   /\ s.user_state = start.user_state
                   /\ s.input # << >> => ~is_digit(s.input[1])

\* integer_signed_checked into i8 on "-129a": three digits were accumulated
\* before the bound was hit, and the cursor is still before the '-'
C29_Witness ==
    /\ pc = "done"
    /\ parser = IntegerParser("integer_signed_checked", I8)
    /\ start.input = <<CH_minus>> \o Decimal(129) \o <<CH_a>>
    /\ result = None
    /\ s = start

\* C7: integer_checked into u8 succeeds exactly when the input starts with
\* at least one decimal digit and its maximal digit run denotes a value of
\* at most 255, and it then returns that value; otherwise (a larger value,
\* or a first item that is no digit, '-' included) it fails.
C7_IntegerCheckedU8 ==
    (pc = "done" /\ parser = IntegerParser("integer_checked", U8)) =>
        LET n == DigitRunLen(start.input, 1)
            v == DigitsValue(SubSeq(start.input, 1, n))
        IN  IF n >= 1 /\ v <= 255 THEN result = Some(v) ELSE result = None

\* "255" has been parsed to 255 by integer_checked::<u8>
C7_Witness ==
    /\ pc = "done" /\ parser = IntegerParser("integer_checked", U8)
    /\ start.input = Decimal(255)
    /\ result = Some(255)
    /\ s.input = << >>

\* C8: integer_signed_checked into i8, on an optional '-' followed by one or
\* more digits, returns the literal's value when it lies in -128..127 and
\* None for every other literal; it never panics and never returns a
\* wrapped value.
C8_IntegerSignedCheckedI8 ==
    LET input == start.input
        from == IF input # << >> /\ input[1] = CH_minus THEN 2 ELSE 1
        \* optional '-' followed by one or more digits, and nothing else
        IsLiteral == from <= Len(input) /\ DigitRunLen(input, from) = Len(input) - from + 1
        v == IF from = 2 THEN 0 - DigitsValue(SubSeq(input, 2, Len(input)))
             ELSE DigitsValue(input)
    IN  (pc = "done" /\ parser = IntegerParser("integer_signed_checked", I8) /\ IsLiteral) =>
            IF v >= I8.MIN /\ v <= I8.MAX THEN result = Some(v) ELSE result = None

\* C18: float() on an input that begins with [-]digits[.digits] returns
\* integer_part + sign * fraction / 10^k, k being the number of fraction
\* digits (leading zeros counted) and sign -1 exactly when the literal
\* starts with '-', a zero integer part included; that is
\* sign * (|integer_part| + fraction / 10^k).  Without a '.' followed by a
\* digit the integer value is returned and the cursor stays before the '.'.
C18_FloatValue ==
    LET input == start.input
        negative == input # << >> /\ input[1] = CH_minus
        from == IF negative THEN 2 ELSE 1
        int_len == DigitRunLen(input, from)
        dot == from + int_len
        frac_len == IF dot <= Len(input) /\ input[dot] = CH_dot
                    THEN DigitRunLen(input, dot + 1) ELSE 0
        magnitude == DigitsValue(SubSeq(input, from, dot - 1))
        fraction == DigitsValue(SubSeq(input, dot + 1, dot + frac_len))
        sign == IF negative THEN -1 ELSE 1
        \* expected value: num / den
        num == sign * (magnitude * (10 ^ frac_len) + fraction)
        den == 10 ^ frac_len
        literal_len == IF frac_len = 0 THEN dot - 1 ELSE dot + frac_len
    IN  (pc = "done" /\ parser = float /\ int_len >= 1) =>
            /\ result.some
            /\ result.v.num * den = num * result.v.den
            /\ frac_len = 0 => result.v = [num |-> sign * magnitude, den |-> 1]
            /\ s.input = slice_from(input, literal_len)

\* C30: float() on [-]digits followed by a '.' that no digit follows returns
\* the integer value with the cursor at the '.': the fractional alternative,
\* run after the integer part, consumes the '.' and fails, and the or around
\* it puts the cursor back before the second alternative returns the integer.
C30_DotWithoutDigitsGivenBack ==
    LET input == start.input
        negative == input # << >> /\ input[1] = CH_minus
        from == IF negative THEN 2 ELSE 1
        dot == from + DigitRunLen(input, from)
        n == DigitsValue(SubSeq(input, from, dot - 1))
        \* the first alternative of the or, called where the integer part ended
        dec(r) == Run(bound(parser.f, r.res.v).p1, r.s)
        fraction(d) ==
            /\ ~d.res.some
            /\ d.s.input = SubSeq(input, dot + 1, Len(input))
    IN  (/\ pc = "done" /\ parser = float
         /\ dot > from /\ dot <= Len(input) /\ input[dot] = CH_dot
         /\ DigitRunLen(input, dot + 1) = 0) =>
            /\ result = Some([num |-> IF negative THEN 0 - n ELSE n, den |-> 1])
            /\ s.input = SubSeq(input, dot, Len(input))
            /\ s.user_state = start.user_state
            /\ fraction(dec(Run(parser.p, start)))

\* "1.-5" has been parsed to 1 and ".-5" is left
C30_Witness ==
    /\ pc = "done" /\ parser = float
    /\ start.input = <<CH_0 + 1, CH_dot, CH_minus, CH_0 + 5>>
    /\ result = Some([num |-> 1, den |-> 1])
    /\ s.input = <<CH_dot, CH_minus, CH_0 + 5>>

\* "-0.001" has been parsed to -1 / 1000
C18_Witness ==
    /\ pc = "done" /\ parser = float
    /\ start.input = <<CH_minus, CH_0, CH_dot, CH_0, CH_0, CH_0 + 1>>
    /\ result = Some([num |-> -1, den |-> 1000])
    /\ s.input = << >>

\* C22: every function named *_checked that parsers.rs generates is
\* generated with the checked arithmetic, and on a literal whose value does
\* not fit its type it returns None: it neither panics nor returns a wrapped
\* value (a literal that fits is returned as its value).
C22_CheckedNeverOverflows ==
    LET unsigned == parser.op = "internal_integer"
        signed == parser.op = "bind" /\ parser.f.fn = "internal_signed_integer"
        g == IF unsigned THEN parser ELSE parser.f
        input == start.input
        from == IF signed /\ input # << >> /\ input[1] = CH_minus THEN 2 ELSE 1
        n == DigitRunLen(input, from)
        magnitude == DigitsValue(SubSeq(input, from, from + n - 1))
        v == IF from = 2 THEN 0 - magnitude ELSE magnitude
    IN  ((unsigned \/ signed) /\
         g.id \in {"integer_u8_checked", "integer_u16_checked", "integer_usize_checked",
                   "integer_i8_checked", "integer_i16_checked",
                   "integer_isize_checked"}) =>
            /\ g.checked
            /\ pc = "done" =>
                  /\ result # Panic
                  /\ IF n >= 1 /\ ~overflows(g.O, v) THEN result = Some(v)
                                                      ELSE result = None

-----------------------------------------------------------------------------
(* SpecLoop: the repetition loops of many_internal (under many and         *)
(* many_to_vec) and of chain, one step per call of the element, separator  *)
(* or operator parser.  loc holds the locals of the running loop; its      *)
(* field prev is history: the parser that succeeded last ("none" before    *)
(* the first success, then "elem" or "sep").                               *)

MaxLoopLen == 4

CH_1 == CH_0 + 1

IntegerU16 == IntegerParser("integer", U16)

\* tests::num_parser
num_parser == Or(Left(IntegerU16, Take(<<CH_comma>>)), Left(IntegerU16, Empty))

\* element parsers that succeed without consuming input
IdleElements == {Success, Peek(IntegerU16), Succeed(IntegerU16), SkipAsciiWhitespace}

Separators ==
    { no_separator, separator(Skip(<<CH_comma>>), FALSE),
      separator(Skip(<<CH_comma>>), TRUE), separator(SkipAsciiWhitespace, FALSE) }

\* json.rs, parse_until of string_parser: the text up to a quote, a
\* backslash or a control character, then the escape if it was a backslash.
\* item() is not in parsers.rs as called there; it is taken as the parser of
\* any one item.
parse_until ==
    LET hexdigit == (CH_0..(CH_0 + 9)) \cup (65..70) \cup (97..102)
        unicode == Right(Skip(<<117>>), Times(4, ItemIf(hexdigit)))
        escaped == Right(ItemIf(0..255),
                         OrDiff(ItemIf({CH_quote, CH_backslash, CH_slash,
                                        98, 102, 110, 114, 116}),
                                unicode))
    IN  Choose(FindByte(bitor(bitor(EqByte(CH_quote), EqByte(CH_backslash)),
                              LtByte(CH_space)), FALSE),
               (CH_backslash :> escaped))

\* a separator of two items, which fails after its first
CommaSpace == Right(Skip(<<CH_comma>>), Skip(<<CH_space>>))

\* many_to_vec only over element parsers that consume input whenever they
\* succeed
ManyParsers ==
    { ManyParser(name, p, allow_empty, sep) :
        name \in {"many", "many_to_vec"}, p \in {IntegerU16, num_parser},
        allow_empty \in BOOLEAN, sep \in Separators }
    \cup { ManyParser("many", p, allow_empty, sep) :
             p \in IdleElements, allow_empty \in BOOLEAN, sep \in Separators }
    \cup { ManyParser(name, IntegerU16, allow_empty, separator(CommaSpace, FALSE)) :
             name \in {"many", "many_to_vec"}, allow_empty \in BOOLEAN }

\* json.rs, string_parser: many(parse_until, true, no_separator()), between
\* the quotes
StringBody == ManyParser("many", parse_until, TRUE, no_separator)

ChainParsers ==
    { Chain(p, op_p) :
        p \in {IntegerU16, Peek(IntegerU16)},
        op_p \in {Right(Skip(<<CH_plus>>), Pure("add")), Pure("keep_left")} }

\* inputs of expr with the value of each: the five of the chain example,
\* then 8-3-2, 8/2/2, 2+3*4, -7/2, and 1+, 2*( and 1+( whose last operator
\* has no operand
ExprExamples ==
    LET d(n) == CH_0 + n
        P == CH_plus  M == CH_minus  T == CH_star  D == CH_slash
        L == CH_lparen  R == CH_rparen
    IN  { <<<<M, d(1), d(2)>>, -12>>,
          <<<<d(1), d(2)>>, 12>>,
          <<<<d(1), d(2), P, d(2), d(4)>>, 36>>,
          <<<<d(2), T, d(1), d(2), P, d(2), d(4)>>, 48>>,
          <<<<L, d(2), d(4), D, d(3), M, d(2), M, L, d(3), P, d(2), R, M,
              d(4), T, d(3), D, d(2), R, T, d(5)>>, -25>>,
          <<<<d(8), M, d(3), M, d(2)>>, 3>>,
          <<<<d(8), D, d(2), D, d(2)>>, 2>>,
          <<<<d(2), P, d(3), T, d(4)>>, 14>>,
          <<<<M, d(7), D, d(2)>>, -3>>,
          <<<<d(1), P>>, 1>>,
          <<<<d(2), T, L>>, 2>>,
          <<<<d(1), P, L>>, 1>> }

InitLoop ==
    /\ env = Build(8, FALSE)
    /\ \/ /\ parser = expr
          /\ \E e \in ExprExamples : s = AnpaState(e[1], << >>)
       \/ /\ parser \in ManyParsers
          /\ \E input \in SeqsUpTo({CH_1, CH_comma, CH_space}, MaxLoopLen) :
                s = AnpaState(input, << >>)
       \/ /\ parser = StringBody
          /\ \E input \in SeqsUpTo({CH_a, CH_quote, CH_backslash, 110}, MaxLoopLen) :
                s = AnpaState(input, << >>)
       \/ /\ parser \in ChainParsers
          /\ \E input \in SeqsUpTo({CH_1, CH_plus, CH_space}, MaxLoopLen) :
                s = AnpaState(input, << >>)
    /\ start = s
    /\ result = None
    /\ pc = "ready"
    /\ loc = NoLocals

\* many / fold: old_input and init() are taken, many_internal sets its locals
CallMany ==
    /\ pc = "ready" /\ parser.op \in {"many", "many_to_vec"}
    /\ loc' = [old_input |-> s.input, successes |-> FALSE, has_trailing_sep |-> FALSE,
               res |-> None, acc |-> << >>, prev |-> "none"]
    /\ pc' = "many_p"
    /\ UNCHANGED <<env, parser, start, s, result>>

\* ManyElement putting the cursor back when the element parser fails
ManyElement_restoring ==
    /\ pc = "many_p"
    /\ LET r == Run(parser.p, s)
       IN  /\ s' = IF r.res.some THEN r.s ELSE s
           /\ loc' = [loc EXCEPT !.res = r.res]
           /\ pc' = IF r.res.some THEN "many_body" ELSE "many_exit"
    /\ UNCHANGED <<env, parser, start, result>>

\* while let Some(res) = p(s)
ManyElement ==
    /\ pc = "many_p"
    /\ LET r == Run(parser.p, s)
       IN  /\ s' = r.s
           /\ loc' = [loc EXCEPT !.res = r.res]
           /\ pc' = IF r.res.some THEN "many_body" ELSE "many_exit"
    /\ UNCHANGED <<env, parser, start, result>>

ManyBody ==
    /\ pc = "many_body"
    /\ LET b == many_body(parser.op, parser.separator, loc, s)
       IN  /\ s' = b.s
           /\ loc' = b.l
           /\ pc' = IF b.break THEN "many_exit" ELSE "many_p"
    /\ UNCHANGED <<env, parser, start, result>>

\* many: .then_some(old_input.slice_to(consumed)); fold: .then_some(res)
ManyReturn ==
    /\ pc = "many_exit"
    /\ result' =
          IF many_internal_ret(parser.allow_empty, parser.separator, loc)
          THEN IF parser.op = "many"
               THEN Some(slice_to(loc.old_input,
                                  slice_len(loc.old_input) - slice_len(s.input)))
               ELSE Some(loc.acc)
          ELSE None
    /\ pc' = "done"
    /\ UNCHANGED <<env, parser, start, s, loc>>

\* chain: let mut res = p(s)?
CallChain ==
    /\ pc = "ready" /\ parser.op = "chain"
    /\ LET r == Run(parser.p, s)
       IN  /\ s' = r.s
           /\ IF r.res.some
              THEN /\ loc' = [old_input |-> s.input, successes |-> TRUE,
                              has_trailing_sep |-> FALSE, res |-> None,
                              acc |-> r.res.v, prev |-> "elem"]
                   /\ pc' = "chain_op"
                   /\ UNCHANGED result
              ELSE /\ result' = None
                   /\ pc' = "done"
                   /\ UNCHANGED loc
    /\ UNCHANGED <<env, parser, start>>

\* if let Some(op_f) = op(s), else return Some(res)
ChainOp ==
    /\ pc = "chain_op"
    /\ LET r == Run(parser.op_p, s)
       IN  /\ s' = r.s
           /\ IF r.res.some
              THEN /\ loc' = [loc EXCEPT !.res = r.res, !.prev = "sep"]
                   /\ pc' = "chain_p"
                   /\ UNCHANGED result
              ELSE /\ result' = Some(loc.acc)
                   /\ pc' = "done"
                   /\ UNCHANGED loc
    /\ UNCHANGED <<env, parser, start>>

\* ChainOperand putting the cursor back when the operand parser fails
ChainOperand_restoring ==
    /\ pc = "chain_p"
    /\ LET r == Run(parser.p, s)
       IN  IF r.res.some
           THEN /\ s' = r.s
                /\ loc' = [loc EXCEPT !.acc = apply_op(loc.res.v, loc.acc, r.res.v),
                                      !.prev = "elem"]
                /\ pc' = "chain_op"
                /\ UNCHANGED result
           ELSE /\ s' = s
                /\ result' = Some(loc.acc)
                /\ pc' = "done"
                /\ UNCHANGED loc
    /\ UNCHANGED <<env, parser, start>>

\* if let Some(res2) = p(s) { res = op_f(res, res2); continue }, else return
ChainOperand ==
    /\ pc = "chain_p"
    /\ LET r == Run(parser.p, s)
       IN  /\ s' = r.s
           /\ IF r.res.some
              THEN /\ loc' = [loc EXCEPT !.acc = apply_op(loc.res.v, loc.acc, r.res.v),
                                         !.prev = "elem"]
                   /\ pc' = "chain_op"
                   /\ UNCHANGED result
              ELSE /\ result' = Some(loc.acc)
                   /\ pc' = "done"
                   /\ UNCHANGED loc
    /\ UNCHANGED <<env, parser, start>>

NextLoop ==
    \/ CallMany
    \/ ManyElement
    \/ ManyBody
    \/ ManyReturn
    \/ CallChain
    \/ ChainOp
    \/ ChainOperand

SpecLoop == InitLoop /\ [][NextLoop]_vars

MaxFairLen == 3

\* the loops under weak fairness: a started parse is not suspended, whatever
\* step is enabled is taken.  The element parsers are integer and the
\* parsers that succeed without consuming input.
InitFair ==
    /\ env = Build(8, FALSE)
    /\ \/ /\ parser \in { ManyParser("many", p, allow_empty, sep) :
                          p \in IdleElements \cup {IntegerU16},
                          allow_empty \in BOOLEAN, sep \in Separators }
          /\ \E input \in SeqsUpTo({CH_1, CH_comma, CH_space}, MaxFairLen) :
                s = AnpaState(input, << >>)
       \/ /\ parser \in ChainParsers
          /\ \E input \in SeqsUpTo({CH_1, CH_plus, CH_space}, MaxFairLen) :
                s = AnpaState(input, << >>)
    /\ start = s
    /\ result = None
    /\ pc = "ready"
    /\ loc = NoLocals

FairLoop == InitFair /\ [][NextLoop]_vars /\ WF_vars(NextLoop)

\* C5 (as stated): with a separator and allow_trailing = false, many fails
\* exactly when the loop stopped because the element parser failed right
\* after a successful separator.
C5_FailsExactlyOnTrailingSeparator ==
    (pc = "done" /\ parser.op \in {"many", "many_to_vec"} /\ parser.separator.some /\ ~parser.separator.v[1]) =>
        (result = None <=> loc.prev = "sep")

\* C5 (amended): with a separator, many fails exactly when either
\* allow_trailing = false and the loop stopped because the element parser
\* failed right after a successful separator, or allow_empty = false and no
\* element succeeded at all.  A loop stopped by a failing separator is never
\* rejected, and with allow_trailing = true a trailing separator is not either.
C5_TrailingSeparatorRule ==
    (pc = "done" /\ parser.op \in {"many", "many_to_vec"} /\ parser.separator.some) =>
        LET trailing_rejected == ~parser.separator.v[1] /\ loc.prev = "sep"
            empty_rejected == ~parser.allow_empty /\ loc.prev = "none"
        IN  result = None <=> (trailing_rejected \/ empty_rejected)

\* "1,1," under many(integer, false, separator(skip(','), false)): the
\* separator after the last element succeeded, no element followed, and the
\* whole combinator failed
C5_Witness ==
    /\ pc = "done"
    /\ parser = ManyParser("many", IntegerU16, FALSE, separator(Skip(<<CH_comma>>), FALSE))
    /\ start.input = <<CH_1, CH_comma, CH_1, CH_comma>>
    /\ loc.prev = "sep"
    /\ s.input = << >>
    /\ result = None

\* C6 (as stated): without a separator, when the element parser fails on its
\* first attempt many fails if allow_empty = false and succeeds with an empty
\* result, the cursor where the call started, if allow_empty = true; after a
\* successful element it succeeds.
C6_EmptyConsumesNothing ==
    (pc = "done" /\ parser.op \in {"many", "many_to_vec"} /\ ~parser.separator.some) =>
        LET first == Run(parser.p, start)
        IN  IF ~first.res.some
            THEN IF parser.allow_empty
                 THEN result = Some(<< >>) /\ s.input = start.input
                 ELSE result = None
            ELSE result.some

\* C6 (amended): without a separator, when the element parser fails on its
\* first attempt many fails if allow_empty = false; if allow_empty = true it
\* succeeds with no element in the result and the cursor where the failed
\* attempt left it (many returns the span that attempt consumed), so it
\* consumes nothing exactly when the failed attempt consumed nothing.  After
\* a successful element it succeeds for either flag.
C6_EmptyRule ==
    (pc = "done" /\ parser.op \in {"many", "many_to_vec"} /\ ~parser.separator.some) =>
        LET first == Run(parser.p, start)
        IN  /\ (loc.prev = "none") = ~first.res.some
            /\ IF ~first.res.some
               THEN IF parser.allow_empty
                    THEN /\ s = first.s
                         /\ result = Some(IF parser.op = "many"
                                          THEN slice_to(start.input, Consumed(first))
                                          ELSE << >>)
                    ELSE result = None
               ELSE result.some

\* "1 " under many(num_parser(), true, no_separator()): the first attempt
\* read "1" and failed, and many succeeded with the span "1"
C6_Witness ==
    /\ pc = "done"
    /\ parser = ManyParser("many", num_parser, TRUE, no_separator)
    /\ start.input = <<CH_1, CH_space>>
    /\ loc.prev = "none"
    /\ result = Some(<<CH_1>>)
    /\ s.input = <<CH_space>>

\* C10: every parse with many, many_to_vec or chain comes to its return,
\* whatever the element, separator and operator parsers are.
C10_LoopsTerminate == <>(pc = "done")

\* C11: chain(p, op) fails only when the first p fails.  Otherwise it returns
\* f_k(...f_2(f_1(v0, v1), v2)..., v_k), v0 being the first p's result and
\* (f_i, v_i) the results of the longest run of pairs "op succeeds, then p
\* succeeds": the run ends at the first op or p that fails, and the value
\* folded so far is returned.  The expression parser of the example gives
\* each input its value: "(24/3-2-(3+2)-4*3/2)*5" gives -25.
C11_ChainFoldsLeft ==
    (pc = "done" /\ parser.op = "chain") =>
        LET \* the longest run of (op_f, v) pairs from the state st on
            RECURSIVE pairs(_)
            pairs(st) ==
                LET operand(op_f, r2) ==
                        IF r2.res.some THEN <<<<op_f, r2.res.v>>>> \o pairs(r2.s)
                        ELSE << >>
                    operator(r1) ==
                        IF r1.res.some THEN operand(r1.res.v, Run(parser.p, r1.s))
                        ELSE << >>
                IN  operator(Run(parser.op_p, st))
            \* the fold: the last pair is applied outermost
            RECURSIVE fold_left(_, _)
            fold_left(v0, ps) ==
                IF ps = << >> THEN v0
                ELSE apply_op(ps[Len(ps)][1],
                              fold_left(v0, SubSeq(ps, 1, Len(ps) - 1)),
                              ps[Len(ps)][2])
            check(first) ==
                IF ~first.res.some THEN result = None
                ELSE result = Some(fold_left(first.res.v, pairs(first.s)))
        IN  /\ check(Run(parser.p, start))
            /\ parser = expr =>
                  \A e \in ExprExamples : start.input = e[1] => result = Some(e[2])

\* "(24/3-2-(3+2)-4*3/2)*5" has been evaluated to -25 and read to its end
C11_Witness ==
    /\ pc = "done" /\ parser = expr
    /\ Len(start.input) = 22
    /\ result = Some(-25)
    /\ s.input = << >>

\* C24: when many / many_to_vec stops because the element parser or the
\* separator parser failed, the cursor stays where that failed call left
\* it, also when it consumed input: it is not put back to the end of the
\* last complete element, and the span many returns runs up to it.
C24_FailedAttemptStaysConsumed ==
    (pc = "done" /\ parser.op \in {"many", "many_to_vec"}) =>
        LET sep == parser.separator
            \* the loop from st on: good is the state after the last call that
            \* succeeded, fail the outcome of the call that failed
            RECURSIVE walk(_)
            walk(st) ==
                LET after_sep(e, r) ==
                        IF r.res.some THEN walk(r.s) ELSE [good |-> e.s, fail |-> r]
                    after_element(e) ==
                        IF ~e.res.some THEN [good |-> st, fail |-> e]
                        ELSE IF ~sep.some THEN walk(e.s)
                        ELSE after_sep(e, Run(sep.v[2], e.s))
                IN  after_element(Run(parser.p, st))
            stays(w) ==
                /\ s = w.fail.s
                /\ Len(w.fail.s.input) <= Len(w.good.input)
                /\ (result.some /\ parser.op = "many") =>
                       result.v = slice_to(start.input,
                                           Len(start.input) - Len(w.fail.s.input))
        IN  stays(walk(start))

\* string_parser's many on ab"a: parse_until read ab up to the quote and
\* failed there; many returned ab and left the cursor at the quote
C24_Witness ==
    /\ pc = "done" /\ parser = StringBody
    /\ start.input = <<CH_a, CH_a, CH_quote, CH_a>>
    /\ loc.prev = "none"
    /\ result = Some(<<CH_a, CH_a>>)
    /\ s.input = <<CH_quote, CH_a>>

\* C27: when chain(p, op) stops because op succeeded and the p after it
\* failed, it returns the value folded so far and the cursor is where that
\* failed p left it: after the operator and whatever the failed p consumed,
\* not back at the end of the last operand folded.
C27_DanglingOperatorStaysConsumed ==
    (pc = "done" /\ parser.op = "chain") =>
        LET \* the loop from st on with res folded so far: which call failed, the
            \* cursor before the last operator, after it, and the failed outcome
            RECURSIVE walk(_, _)
            walk(res, st) ==
                LET operand(r1, r2) ==
                        IF r2.res.some
                        THEN walk(apply_op(r1.res.v, res, r2.res.v), r2.s)
                        ELSE [failed |-> "p", res |-> res, before_op |-> st,
                              after_op |-> r1.s, fail |-> r2]
                    operator(r1) ==
                        IF r1.res.some THEN operand(r1, Run(parser.p, r1.s))
                        ELSE [failed |-> "op", res |-> res, before_op |-> st,
                              after_op |-> st, fail |-> r1]
                IN  operator(Run(parser.op_p, st))
            dangling(w) ==
                w.failed = "p" =>
                    /\ result = Some(w.res)
                    /\ s = w.fail.s
                    /\ Len(s.input) <= Len(w.after_op.input)
                    /\ Len(w.after_op.input) < Len(w.before_op.input) =>
                           s.input # w.before_op.input
            first(r) == r.res.some => dangling(walk(r.res.v, r.s))
        IN  first(Run(parser.p, start))

\* expr on "1+(": '+' was read, the operand after it read '(' and failed;
\* chain returned 1 with both items consumed
C27_Witness ==
    /\ pc = "done" /\ parser = expr
    /\ start.input = <<CH_0 + 1, CH_plus, CH_lparen>>
    /\ loc.prev = "sep"
    /\ result = Some(1)
    /\ s.input = << >>

-----------------------------------------------------------------------------
(* SpecSemver: one call of parse_inline, on a version core followed by     *)
(* every short tail of markers, dots, letters and digits, and on the       *)
(* literals of the tests of semver.rs.                                     *)

MaxTailLen == 4

SemverInputs ==
    LET d(n) == CH_0 + n
        core == <<d(1), d(2), CH_dot, d(3), d(4), d(5), CH_dot, d(6), d(7), d(8), d(9), d(0)>>
        SNAPSHOT == <<83, 78, 65, 80, 83, 72, 79, 84>>
        build_ == <<98, 117, 105, 108, 100>>
    IN  { c \o tail :
            c \in { <<d(1), CH_dot, d(2), CH_dot, d(3)>>,
                    <<d(0), CH_dot, d(0), CH_dot, d(1), d(0)>> },
            tail \in SeqsUpTo({CH_minus, CH_plus, CH_dot, CH_a, CH_0, CH_0 + 1},
                              MaxTailLen) }
        \cup { <<d(1), CH_dot, d(2)>>, <<d(0), d(1), CH_dot, d(2), CH_dot, d(3)>>,
               <<d(1), CH_dot, d(2), CH_dot>>, << >> }
        \cup { core \o tail :
                 tail \in { << >>, <<CH_minus>> \o SNAPSHOT, <<CH_minus>>,
                            <<CH_minus, CH_plus>>, <<CH_minus, CH_plus>> \o build_,
                            <<CH_minus>> \o SNAPSHOT \o <<CH_plus>>,
                            <<CH_plus>> \o build_ \o <<d(1)>>,
                            <<CH_minus>> \o SNAPSHOT \o <<CH_plus>> \o build_ \o <<d(1)>> } }

InitSemver ==
    /\ env = Build(8, FALSE)
    /\ parser = semver
    /\ \E text \in SemverInputs : s = AnpaState(text, << >>)
    /\ start = s
    /\ result = None
    /\ pc = "ready"
    /\ loc = NoLocals

\* parse_general: semver().parse(text).result
parse_inline ==
    /\ pc = "ready" /\ parser = semver
    /\ Return(Run(semver, s))

SpecSemver == InitSemver /\ [][parse_inline]_vars

\* C23: parse_inline returns None whenever, after the version core, a
\* marker ('-' opening the pre-release part, '+') or a '.' is not followed
\* by an identifier: it ends the input or stands before a '.' or a '+'.  A
\* part that fails gives back its marker: after a failed parse the cursor
\* is at the start of what follows the core, or at a '+' with a part before
\* it read; and a parse succeeds only with the input read to its end.
C23_SemverRejectsDanglingMarker ==
    LET input == start.input
        a == DigitRunLen(input, 1)
        b == DigitRunLen(input, a + 2)
        c == DigitRunLen(input, a + b + 3)
        core_len == a + b + c + 2
        no_leading_zero(from, n) ==
            input[from] # CH_0 \/ DigitsValue(SubSeq(input, from, from + n - 1)) = 0
        core_ok == /\ a >= 1 /\ b >= 1 /\ c >= 1
                   /\ input[a + 1] = CH_dot /\ input[a + b + 2] = CH_dot
                   /\ no_leading_zero(1, a) /\ no_leading_zero(a + 2, b)
                   /\ no_leading_zero(a + b + 3, c)
        tail == SubSeq(input, core_len + 1, Len(input))
        dangling ==
            \E i \in 1..Len(tail) :
                /\ tail[i] \in {CH_plus, CH_dot} \/ (i = 1 /\ tail[1] = CH_minus)
                /\ i = Len(tail) \/ tail[i + 1] \in {CH_plus, CH_dot}
    IN  (pc = "done" /\ parser = semver) =>
            /\ result.some => s.input = << >> /\ core_ok
            /\ (core_ok /\ dangling) => result = None
            /\ (core_ok /\ result = None) =>
                   \/ s.input = tail
                   \/ s.input # << >> /\ s.input[1] = CH_plus

\* "1.2.3-1a+": the pre-release part 1a was read, the '+' has no identifier
\* after it, the build part gave the '+' back and the parse failed there
C23_Witness ==
    /\ pc = "done" /\ parser = semver
    /\ start.input = <<CH_0 + 1, CH_dot, CH_0 + 2, CH_dot, CH_0 + 3,
                       CH_minus, CH_0 + 1, CH_a, CH_plus>>
    /\ result = None
    /\ s.input = <<CH_plus>>

-----------------------------------------------------------------------------
(* SpecCore: any one of the calls above.                                   *)

InitCore == InitComb \/ InitFind \/ InitNum \/ InitLoop

NextCore == NextComb \/ NextFind \/ NextNum \/ NextLoop

SpecCore == InitCore /\ [][NextCore]_vars

\* C19: at every point of a call, after a parser or combinator has run,
\* succeeded or failed, backtracked or not, the cursor is a suffix of the
\* cursor the call started with: its end is the same and its start is not
\* before the starting position, so it is never longer.
C19_CursorIsSuffix ==
    /\ Len(s.input) <= Len(start.input)
    /\ s.input = SubSeq(start.input, Len(start.input) - Len(s.input) + 1,
                        Len(start.input))

\* greedy_or ran both alternatives from the start, they consumed different
\* amounts, and the cursor left is a proper, non-empty suffix
C19_Witness ==
    /\ pc = "done" /\ parser.op = "greedy_or"
    /\ Consumed(Run(parser.p1, start)) = 3
    /\ Consumed(Run(parser.p2, Rewound(Run(parser.p1, start)))) = 1
    /\ Len(s.input) = 2
    /\ C19_CursorIsSuffix

====
